---- MODULE Spec2Model ----
(***************************************************************************)
(* Compliance pipeline: the four LangGraph nodes of compliance.py, the     *)
(* retry wrapper around the generation calls, the two-store file store     *)
(* manager of compliance_file_store.py, and the remote service they talk   *)
(* to (stores, documents, binaries).                                       *)
(*                                                                         *)
(* Text is a sequence of lexemes.  A lexeme is a run of characters that    *)
(* the code never looks inside: a word, a phrase, a quote character.  The  *)
(* upper-case word ERROR and the double quote are always lexemes of their  *)
(* own, so substring search for "ERROR" and quoting are decided at lexeme  *)
(* granularity.  Python None and a key missing from the state dict are two *)
(* reserved one-lexeme texts.                                              *)
(***************************************************************************)
EXTENDS Integers, Sequences, FiniteSets, TLC

VARIABLES
    stores,          \* remote file search stores, in listing order
    docs,            \* remote document entries of all stores, in listing order
    files,           \* names of the remote binaries that exist (Files API)
    next_file,       \* next fresh remote name (binaries and documents)
    user_store_id,   \* ComplianceFileStoreManager._user_store_id (0 = None)
    admin_store_id,  \* ComplianceFileStoreManager._admin_store_id (0 = None)
    state,           \* the ComplianceState of the current pipeline run
    pc,              \* position of the current run
    call,            \* the public entry point being served and its arguments
    trace,           \* the nodes invoked by the current run, in order
    n_calls,         \* remote calls issued by the current run, per kind
    gen_calls,       \* the calls the current run made through call_gemini_with_retry
    deleted,         \* names for which the step just taken issued a remote delete
    result,          \* what the step just taken returned to the caller of a public entry point
    budget,          \* public calls the session may still start
    rname,           \* the display name the resolver threads resolve
    rpc,             \* per resolver thread: position in _get_or_create_store
    rret,            \* per resolver thread: the handle it returned (0 = none yet)
    fq,              \* a file search query: identifiers, filter, selection
    retry,           \* one call through call_gemini_with_retry: inputs, outcome
    xfer             \* one _upload_from_s3 taken step by step: position, binary, status

vars == <<stores, docs, files, next_file, user_store_id, admin_store_id, state,
          pc, call, trace, n_calls, gen_calls, deleted, result, budget, rname,
          rpc, rret, fq, retry, xfer>>

remote_vars == <<stores, docs, files, next_file>>
cache_vars == <<user_store_id, admin_store_id>>
run_vars == <<state, pc, call, trace, n_calls, gen_calls, budget>>
side_vars == <<rname, rpc, rret, fq, retry, xfer>>

-----------------------------------------------------------------------------
(* Bounds of the model *)

MaxPublicCalls == 2   \* public entry point calls per session
MaxFiles == 2         \* remote names the session may allocate
MaxStores == 3        \* remote stores that may exist
MaxExtraFails == 1    \* how many more than the retry cap the service may fail
MaxPolls == 2         \* polls of the processing status that are counted; more count as this many

-----------------------------------------------------------------------------
(* Text *)

None == <<"<None>">>
Absent == <<"<absent>">>

\* Python truthiness of an optional string
Truthy(t) == t # None /\ t # Absent /\ t # <<>>

\* dict.get(key): a missing key reads as None
Get(t) == IF t = Absent THEN None ELSE t

\* dict.get(key, default)
GetOr(t, default) == IF t = Absent THEN default ELSE t

\* sub in t, for texts
Contains(sub, t) ==
    \E i \in 1..(Len(t) - Len(sub) + 1) : SubSeq(t, i, i + Len(sub) - 1) = sub

Max(a, b) == IF a >= b THEN a ELSE b
Min(a, b) == IF a <= b THEN a ELSE b

RECURSIVE Pow2(_)
Pow2(n) == IF n <= 0 THEN 1 ELSE 2 * Pow2(n - 1)

RECURSIVE Sum(_)
Sum(s) == IF s = <<>> THEN 0 ELSE Head(s) + Sum(Tail(s))

-----------------------------------------------------------------------------
(* The retry wrapper: compliance.py, call_gemini_with_retry *)

StopAfterAttempt == 4
WaitMultiplier == 2
WaitMin == 2
WaitMax == 20

\* stop_after_attempt(4): stop once this many attempts were made
stop_after_attempt_5(attempt) == attempt >= StopAfterAttempt + 1
stop_after_attempt(attempt) == attempt >= StopAfterAttempt

\* wait_exponential(multiplier=2, min=2, max=20) after failed attempt number n
wait_exponential(n) ==
    Max(Max(0, WaitMin), Min(WaitMultiplier * Pow2(n - 1), WaitMax))

\* str() of the RetryError raised once the attempts are exhausted
RetryErrorText(cls) == <<"RetryError[", cls, "]">>

\* The retry loop.  The service raises on its first `fails` attempts and
\* returns `text` on the next one.  attempt is the number of the attempt
\* being made, waits the sleeps taken so far.
RECURSIVE RetryLoop(_, _, _, _, _)
RetryLoop(attempt, waits, fails, text, cls) ==
    IF attempt > fails
    THEN [raised |-> FALSE, text |-> text, attempts |-> attempt, waits |-> waits]
    ELSE IF stop_after_attempt(attempt)
    THEN [raised |-> TRUE, text |-> RetryErrorText(cls), attempts |-> attempt,
          waits |-> waits]
    ELSE RetryLoop(attempt + 1, Append(waits, wait_exponential(attempt)),
                   fails, text, cls)

call_gemini_retrying_on_error_text(fails, text, cls) ==
    IF Contains(<<"ERROR">>, text) THEN RetryLoop(1, <<>>, StopAfterAttempt, text, cls)
    ELSE RetryLoop(1, <<>>, fails, text, cls)
call_gemini_with_retry(fails, text, cls) == RetryLoop(1, <<>>, fails, text, cls)

\* How often the generation service may fail in a row, and what it raises
FailCounts == 0..(StopAfterAttempt + MaxExtraFails)
ExcClasses == {"ServerError", "ClientError"}

-----------------------------------------------------------------------------
(* The remote service: stores, documents, binaries *)

USER_STORE_NAME == "Lawvriksh_User_Uploads_v1"
ADMIN_STORE_NAME == "Lawvriksh_Admin_Standards_v1"
ADMIN_DEFAULT_S3_KEY == <<"admin/defaults/standard_compliance_rules.pdf">>

CustomUpload == <<"custom_upload">>
StandardAdminRule == <<"standard_admin_rule">>

\* str(x)
Str(x) == IF x = None THEN <<"None">> ELSE x

\* The remote state as one value, so that operations can be composed
Remote(sts, ds, fs, nf) == [stores |-> sts, docs |-> ds, files |-> fs, next_file |-> nf]
RemoteNow == Remote(stores, docs, files, next_file)

\* A document entry.  name is the entry's own resource name (negative: a
\* different namespace from the binaries), the other fields its metadata tags.
Doc(store, name, user_id, file_id, type, google_file_name) ==
    [store |-> store, name |-> name, user_id |-> user_id, file_id |-> file_id,
     type |-> type, google_file_name |-> google_file_name]

\* client.file_search_stores.documents.list(parent=store)
ListDocs(ds, store) == SelectSeq(ds, LAMBDA d : d.store = store)

-----------------------------------------------------------------------------
(* ComplianceFileStoreManager *)

\* _get_or_create_store, the cache check
CacheLookup(display_name, u, a) ==
    IF display_name = USER_STORE_NAME /\ u # 0 THEN u
    ELSE IF display_name = ADMIN_STORE_NAME /\ a # 0 THEN a
    ELSE 0

\* _get_or_create_store, the search of the remote listing: first match, 0 if none
RECURSIVE FindStoreFrom(_, _, _)
FindStoreFrom(display_name, sts, i) ==
    IF i > Len(sts) THEN 0
    ELSE IF sts[i].display_name = display_name THEN sts[i].name
    ELSE FindStoreFrom(display_name, sts, i + 1)

FindStore(display_name, sts) == FindStoreFrom(display_name, sts, 1)

\* client.file_search_stores.create
CreateStore(display_name, sts) ==
    Append(sts, [name |-> Len(sts) + 1, display_name |-> display_name])

\* _get_or_create_store, the caching of a handle: anything but the user store
\* name is cached as the admin store
CacheUser(display_name, handle, u) == IF display_name = USER_STORE_NAME THEN handle ELSE u
CacheAdmin(display_name, handle, a) == IF display_name = USER_STORE_NAME THEN a ELSE handle

\* _get_or_create_store as one call.  list_ok: the remote listing answers;
\* create_ok: the remote create answers.
_get_or_create_store(display_name, u, a, sts, list_ok, create_ok) ==
    LET cached == CacheLookup(display_name, u, a)
        found == IF list_ok THEN FindStore(display_name, sts) ELSE 0
        new == Len(sts) + 1
    IN IF cached # 0
       THEN [raised |-> FALSE, handle |-> cached, stores |-> sts, user |-> u, admin |-> a]
       ELSE IF found # 0
       THEN [raised |-> FALSE, handle |-> found, stores |-> sts,
             user |-> CacheUser(display_name, found, u),
             admin |-> CacheAdmin(display_name, found, a)]
       ELSE IF ~create_ok
       THEN [raised |-> TRUE, handle |-> 0, stores |-> sts, user |-> u, admin |-> a]
       ELSE [raised |-> FALSE, handle |-> new,
             stores |-> CreateStore(display_name, sts),
             user |-> CacheUser(display_name, new, u),
             admin |-> CacheAdmin(display_name, new, a)]

\* What can happen to one _upload_from_s3
UploadOutcomes ==
    {"ok", "s3_missing", "download_failed", "upload_failed", "processing_failed",
     "import_failed"}

\* The outcomes in which client.files.upload created a remote binary
CreatesBinary(outcome) == outcome \in {"ok", "processing_failed", "import_failed"}

UploadErrorText(outcome, s3_key) ==
    CASE outcome = "s3_missing" -> <<"S3 object does not exist: ">> \o s3_key
      [] outcome = "download_failed" -> <<"Failed to download from S3: ">> \o s3_key
      [] outcome = "upload_failed" -> <<"files.upload failed">>
      [] outcome = "processing_failed" -> <<"File upload failed: ", "processing">>
      [] outcome = "import_failed" -> <<"import_file failed">>
      [] OTHER -> <<>>

\* _upload_from_s3: the binary goes to the Files API, and once it is processed
\* a document entry carrying the metadata plus google_file_name is imported
\* into the store.  Returns the binary's name.
upload_from_s3_untagged(rem, store_name, s3_key, user_id, file_id, type, outcome) ==
    LET name == rem.next_file
        after_upload == IF CreatesBinary(outcome)
                        THEN Remote(rem.stores, rem.docs, rem.files \cup {name}, name + 1)
                        ELSE rem
    IN IF outcome = "ok"
       THEN [raised |-> FALSE, exc |-> "", text |-> <<>>, name |-> name,
             remote |-> [after_upload EXCEPT !.docs =
                 Append(@, Doc(store_name, -name, user_id, file_id, type, 0))]]
       ELSE [raised |-> TRUE,
             exc |-> IF outcome = "s3_missing" THEN "FileNotFoundError" ELSE "Exception",
             text |-> UploadErrorText(outcome, s3_key), name |-> 0,
             remote |-> after_upload]
upload_from_s3_importing_unprocessed(rem, store_name, s3_key, user_id, file_id, type, outcome) ==
    LET name == rem.next_file
        after_upload == IF CreatesBinary(outcome)
                        THEN Remote(rem.stores, rem.docs, rem.files \cup {name}, name + 1)
                        ELSE rem
        imported == [after_upload EXCEPT !.docs =
                        Append(@, Doc(store_name, -name, user_id, file_id, type, name))]
    IN IF outcome = "ok"
       THEN [raised |-> FALSE, exc |-> "", text |-> <<>>, name |-> name, remote |-> imported]
       ELSE [raised |-> TRUE,
             exc |-> IF outcome = "s3_missing" THEN "FileNotFoundError" ELSE "Exception",
             text |-> UploadErrorText(outcome, s3_key), name |-> 0,
             remote |-> IF outcome = "processing_failed" THEN imported ELSE after_upload]
_upload_from_s3(rem, store_name, s3_key, user_id, file_id, type, outcome) ==
    LET name == rem.next_file
        after_upload == IF CreatesBinary(outcome)
                        THEN Remote(rem.stores, rem.docs, rem.files \cup {name}, name + 1)
                        ELSE rem
    IN IF outcome = "ok"
       THEN [raised |-> FALSE, exc |-> "", text |-> <<>>, name |-> name,
             remote |-> [after_upload EXCEPT !.docs =
                 Append(@, Doc(store_name, -name, user_id, file_id, type, name))]]
       ELSE [raised |-> TRUE,
             exc |-> IF outcome = "s3_missing" THEN "FileNotFoundError" ELSE "Exception",
             text |-> UploadErrorText(outcome, s3_key), name |-> 0,
             remote |-> after_upload]

\* client.files.delete(name): the binary goes away, or the call raises
FilesDelete(fs, name, ok) ==
    IF ok /\ name \in fs
    THEN [raised |-> FALSE, files |-> fs \ {name}]
    ELSE [raised |-> TRUE, files |-> fs]

\* The scope filter of a user's document:
\* f'user_id = "{user_id}" AND file_id = "{file_id}"'
Q == "\""
UserFilterByFile(user_id, file_id) == <<"file_id", "=", Q>> \o Str(file_id) \o <<Q>>
UserFilter(user_id, file_id) ==
    <<"user_id", "=", Q>> \o Str(user_id) \o <<Q, "AND", "file_id", "=", Q>>
        \o Str(file_id) \o <<Q>>

\* 'type = "standard_admin_rule"'
AdminFilter == <<"type", "=", Q>> \o StandardAdminRule \o <<Q>>

\* f"user_{user_id}_{int(time.time())}"; "<time>" stands for the digits
GeneratedFileId(user_id) == <<"user_">> \o Str(user_id) \o <<"_", "<time>">>

\* A context dict; file_to_cleanup 0 is None
Context(store_name, metadata_filter, file_to_cleanup, mode) ==
    [store_name |-> store_name, metadata_filter |-> metadata_filter,
     file_to_cleanup |-> file_to_cleanup, mode |-> mode]

NoContext == Context(0, None, 0, "None")

\* What a manager operation hands back: whether it raised and with what
\* text, the context it returned, and the remote state and cache it leaves
Outcome(raised, exc, text, ctx, rem, u, a) ==
    [raised |-> raised, exc |-> exc, text |-> text, ctx |-> ctx, remote |-> rem,
     user |-> u, admin |-> a]

\* _setup_user_context
_setup_user_context(rem, u, a, user_id, s3_key, file_id, env) ==
    LET g == _get_or_create_store(USER_STORE_NAME, u, a, rem.stores, env.list_ok,
                                  env.create_ok)
        fid == IF Truthy(file_id) THEN file_id ELSE GeneratedFileId(user_id)
        up == _upload_from_s3([rem EXCEPT !.stores = g.stores], g.handle, s3_key,
                              Str(user_id), Str(fid), CustomUpload, env.upload)
    IN IF g.raised
       THEN Outcome(TRUE, "Exception", <<"create store failed">>, NoContext, rem, u, a)
       ELSE IF up.raised
       THEN Outcome(TRUE, up.exc, up.text, NoContext, up.remote, g.user, g.admin)
       ELSE Outcome(FALSE, "", <<>>,
                    Context(g.handle, UserFilter(user_id, fid), up.name, "custom"),
                    up.remote, g.user, g.admin)

\* _ensure_admin_file_exists, the scan: the name of the first document of the
\* store tagged type = standard_admin_rule, 0 if none
RECURSIVE FindAdminDoc(_, _)
FindAdminDocNone(ds, i) == 0
FindAdminDoc(ds, i) ==
    IF i > Len(ds) THEN 0
    ELSE IF ds[i].type = StandardAdminRule THEN ds[i].name
    ELSE FindAdminDoc(ds, i + 1)

\* _setup_admin_context, the context it returns: admin_file is the name
\* _ensure_admin_file_exists handed back; file_to_cleanup is None
AdminContextKeepingTarget(store_name, admin_file) ==
    Context(store_name, AdminFilter, admin_file, "standard")
AdminContextCleaningUp(store_name, admin_file) ==
    Context(store_name, AdminFilter, admin_file, "custom")
AdminContext(store_name, admin_file) == Context(store_name, AdminFilter, 0, "standard")

\* _setup_admin_context with _ensure_admin_file_exists
_setup_admin_context(rem, u, a, env) ==
    LET g == _get_or_create_store(ADMIN_STORE_NAME, u, a, rem.stores, env.list_ok,
                                  env.create_ok)
        rem1 == [rem EXCEPT !.stores = g.stores]
        existing == FindAdminDoc(ListDocs(rem1.docs, g.handle), 1)
        up == _upload_from_s3(rem1, g.handle, ADMIN_DEFAULT_S3_KEY, Absent, Absent,
                              StandardAdminRule, env.upload)
    IN IF g.raised
       THEN Outcome(TRUE, "Exception", <<"create store failed">>, NoContext, rem, u, a)
       ELSE IF ~env.docs_ok
       THEN Outcome(TRUE, "Exception", <<"documents.list failed">>, NoContext, rem1,
                    g.user, g.admin)
       ELSE IF existing # 0
       THEN Outcome(FALSE, "", <<>>, AdminContext(g.handle, existing), rem1, g.user,
                    g.admin)
       ELSE IF up.raised
       THEN Outcome(TRUE, up.exc, up.text, NoContext, up.remote, g.user, g.admin)
       ELSE Outcome(FALSE, "", <<>>, AdminContext(g.handle, up.name), up.remote,
                    g.user, g.admin)

\* prepare_compliance_context: the decision between the two paths
prepare_compliance_context_admin_only(rem, u, a, user_id, s3_key, file_id, env) ==
    _setup_admin_context(rem, u, a, env)
prepare_compliance_context(rem, u, a, user_id, s3_key, file_id, env) ==
    IF Truthy(s3_key)
    THEN _setup_user_context(rem, u, a, user_id, s3_key, file_id, env)
    ELSE _setup_admin_context(rem, u, a, env)

\* get_user_context: no try around the store lookup
get_user_context(rem, u, a, user_id, file_id, env) ==
    LET g == _get_or_create_store(USER_STORE_NAME, u, a, rem.stores, env.list_ok,
                                  env.create_ok)
    IN IF g.raised
       THEN Outcome(TRUE, "Exception", <<"create store failed">>, NoContext, rem, u, a)
       ELSE Outcome(FALSE, "", <<>>,
                    Context(g.handle, UserFilter(user_id, file_id), 0, "custom"),
                    [rem EXCEPT !.stores = g.stores], g.user, g.admin)

\* upload_user_document: every failure becomes a status
upload_user_document(rem, u, a, s3_key, user_id, file_id, env) ==
    LET g == _get_or_create_store(USER_STORE_NAME, u, a, rem.stores, env.list_ok,
                                  env.create_ok)
        up == _upload_from_s3([rem EXCEPT !.stores = g.stores], g.handle, s3_key,
                              Str(user_id), Str(file_id), CustomUpload, env.upload)
    IN IF g.raised
       THEN [status |-> "error", message |-> <<"Upload failed: ", "create store failed">>,
             remote |-> rem, user |-> u, admin |-> a]
       ELSE IF up.raised
       THEN [status |-> "error",
             message |-> IF up.exc = "FileNotFoundError"
                         THEN <<"File not found in S3. Please ensure the file was uploaded successfully: ">> \o s3_key
                         ELSE <<"Upload failed: ">> \o up.text,
             remote |-> up.remote, user |-> g.user, admin |-> g.admin]
       ELSE [status |-> "success",
             message |-> <<"Custom rules uploaded and indexed successfully">>,
             remote |-> up.remote, user |-> g.user, admin |-> g.admin]

\* cleanup_user_file, the scan: index of the first document whose user_id and
\* file_id tags equal the given pair, 0 if none
RECURSIVE FindUserDoc(_, _, _, _), FindUserDocByUser(_, _, _, _)
FindUserDocByUser(ds, user_id, file_id, i) ==
    IF i > Len(ds) THEN 0
    ELSE IF Get(ds[i].user_id) = Str(user_id) THEN i
    ELSE FindUserDocByUser(ds, user_id, file_id, i + 1)
FindUserDoc(ds, user_id, file_id, i) ==
    IF i > Len(ds) THEN 0
    ELSE IF Get(ds[i].user_id) = Str(user_id) /\ Get(ds[i].file_id) = Str(file_id)
    THEN i
    ELSE FindUserDoc(ds, user_id, file_id, i + 1)

\* cleanup_user_file: delete the binary of the first matching document.
\* target is the name the delete was issued for (0: no delete issued).
cleanup_user_file(rem, u, a, user_id, file_id, env) ==
    LET g == _get_or_create_store(USER_STORE_NAME, u, a, rem.stores, env.list_ok,
                                  env.create_ok)
        rem1 == [rem EXCEPT !.stores = g.stores]
        listed == ListDocs(rem1.docs, g.handle)
        i == FindUserDoc(listed, user_id, file_id, 1)
        target == IF listed[i].google_file_name # 0
                  THEN listed[i].google_file_name ELSE listed[i].name
        del == FilesDelete(rem1.files, target, env.delete_ok)
    IN IF g.raised
       THEN [status |-> "error", target |-> 0, remote |-> rem, user |-> u, admin |-> a]
       ELSE IF ~env.docs_ok
       THEN [status |-> "error", target |-> 0, remote |-> rem1, user |-> g.user,
             admin |-> g.admin]
       ELSE IF i = 0
       THEN [status |-> "not_found", target |-> 0, remote |-> rem1, user |-> g.user,
             admin |-> g.admin]
       ELSE [status |-> IF del.raised THEN "error" ELSE "success", target |-> target,
             remote |-> [rem1 EXCEPT !.files = del.files], user |-> g.user,
             admin |-> g.admin]

-----------------------------------------------------------------------------
(* JSON text, as far as json.loads decides between a value and a decode error *)

\* Python strings with their JSON literals: the quotes added, a quote inside
\* escaped
StringLiterals ==
    {<<"error", "\"error\"">>,
     <<"SKIPPED: Rules could not be extracted.", "\"SKIPPED: Rules could not be extracted.\"">>,
     <<"is_compliant", "\"is_compliant\"">>,
     <<"overallScore", "\"overallScore\"">>,
     <<"detectionConfidence", "\"detectionConfidence\"">>,
     <<"totalViolations", "\"totalViolations\"">>,
     <<"violations", "\"violations\"">>,
     <<"rule_category", "\"rule_category\"">>,
     <<"violation_text", "\"violation_text\"">>,
     <<"correction_suggestion", "\"correction_suggestion\"">>,
     <<"severity", "\"severity\"">>,
     <<"High", "\"High\"">>,
     <<"Low", "\"Low\"">>,
     <<"privacy", "\"privacy\"">>,
     <<"email jane@x.com", "\"email jane@x.com\"">>,
     <<"said \"call me\"", "\"said \\\"call me\\\"\"">>,
     <<"mask it", "\"mask it\"">>,
     <<"", "\"\"">>}

JsonStrings == {p[2] : p \in StringLiterals}
JsonNumbers == {"0", "2", "0.0", "85.5"}
JsonScalars == JsonStrings \cup {"true", "false", "null"} \cup JsonNumbers

\* The index after the JSON value (the members, the elements) that starts at
\* index i of t; 0 if none starts there
RECURSIVE JsonValueEnd(_, _), JsonMembersEnd(_, _), JsonElementsEnd(_, _)
JsonValueEnd(t, i) ==
    IF i > Len(t) THEN 0
    ELSE IF t[i] \in JsonScalars THEN i + 1
    ELSE IF t[i] = "{"
    THEN IF i + 1 <= Len(t) /\ t[i + 1] = "}" THEN i + 2 ELSE JsonMembersEnd(t, i + 1)
    ELSE IF t[i] = "["
    THEN IF i + 1 <= Len(t) /\ t[i + 1] = "]" THEN i + 2 ELSE JsonElementsEnd(t, i + 1)
    ELSE 0

JsonMembersEnd(t, i) ==
    IF i + 1 <= Len(t) /\ t[i] \in JsonStrings /\ t[i + 1] = ":"
    THEN LET e == JsonValueEnd(t, i + 2)
         IN IF e = 0 \/ e > Len(t) THEN 0
            ELSE IF t[e] = "}" THEN e + 1
            ELSE IF t[e] = "," THEN JsonMembersEnd(t, e + 1)
            ELSE 0
    ELSE 0

JsonElementsEnd(t, i) ==
    LET e == JsonValueEnd(t, i)
    IN IF e = 0 \/ e > Len(t) THEN 0
       ELSE IF t[e] = "]" THEN e + 1
       ELSE IF t[e] = "," THEN JsonElementsEnd(t, e + 1)
       ELSE 0

\* json.loads(t) returns a value (it raises JSONDecodeError otherwise)
JsonDecodable(t) == JsonValueEnd(t, 1) = Len(t) + 1

\* The Python values json.loads builds.  Numbers are held in tenths, so that
\* the int 2 and the float 2.0 are the one number they are in Python.
PyBool(b) == [bool |-> b]
PyNum(tenths) == [num |-> tenths]
PyStr(text) == [str |-> text]
PyNone == [none |-> TRUE]
PyList(elements) == [list |-> elements]
PyDict(members) == [dict |-> members]
EmptyDict == [k \in {} |-> PyNone]

\* The string a JSON string literal denotes, the number a JSON number denotes
JsonLoadsStr(literal) == (CHOOSE p \in StringLiterals : p[2] = literal)[1]
JsonLoadsNumber(literal) ==
    CASE literal = "0" -> 0
      [] literal = "2" -> 20
      [] literal = "0.0" -> 0
      [] literal = "85.5" -> 855

JsonScalarValue(literal) ==
    CASE literal = "true" -> PyBool(TRUE)
      [] literal = "false" -> PyBool(FALSE)
      [] literal = "null" -> PyNone
      [] literal \in JsonNumbers -> PyNum(JsonLoadsNumber(literal))
      [] OTHER -> PyStr(JsonLoadsStr(literal))

\* The value that starts at index i of a decodable text, and the index after
\* it.  An object becomes a dict (a later member replaces an earlier one of the
\* same key), an array a list in the order of the text.
RECURSIVE JsonValue(_, _), JsonMembers(_, _, _), JsonElements(_, _, _), JsonElementsReversed(_, _, _)
JsonValue(t, i) ==
    IF t[i] = "{"
    THEN IF t[i + 1] = "}" THEN [val |-> PyDict(EmptyDict), next |-> i + 2]
         ELSE JsonMembers(t, i + 1, EmptyDict)
    ELSE IF t[i] = "["
    THEN IF t[i + 1] = "]" THEN [val |-> PyList(<<>>), next |-> i + 2]
         ELSE JsonElements(t, i + 1, <<>>)
    ELSE [val |-> JsonScalarValue(t[i]), next |-> i + 1]

JsonMembers(t, i, members) ==
    LET v == JsonValue(t, i + 2)
        now == (JsonLoadsStr(t[i]) :> v.val) @@ members
    IN IF t[v.next] = "}" THEN [val |-> PyDict(now), next |-> v.next + 1]
       ELSE JsonMembers(t, v.next + 1, now)

JsonElementsReversed(t, i, elements) ==
    LET v == JsonValue(t, i)
        now == <<v.val>> \o elements
    IN IF t[v.next] = "]" THEN [val |-> PyList(now), next |-> v.next + 1]
       ELSE JsonElementsReversed(t, v.next + 1, now)
JsonElements(t, i, elements) ==
    LET v == JsonValue(t, i)
        now == Append(elements, v.val)
    IN IF t[v.next] = "]" THEN [val |-> PyList(now), next |-> v.next + 1]
       ELSE JsonElements(t, v.next + 1, now)

\* json.loads(t) for a decodable t
json_loads(t) == JsonValue(t, 1).val

-----------------------------------------------------------------------------
(* The pipeline state and the result of a public call *)

\* A ComplianceState.  store_name and file_to_cleanup are remote names with 0
\* for None or a missing key; mode is "custom", "standard", "None" or "absent";
\* the texts use None and Absent.
ComplianceState(user_id, user_content, s3_key, file_id, store_name, metadata_filter, file_to_cleanup, mode) ==
    [user_id |-> user_id, user_content |-> user_content, s3_key |-> s3_key,
     file_id |-> file_id, store_name |-> store_name,
     metadata_filter |-> metadata_filter, file_to_cleanup |-> file_to_cleanup,
     mode |-> mode, extracted_rules |-> Absent, compliance_report |-> Absent,
     errors |-> <<>>]

NoState == ComplianceState(None, <<>>, None, None, 0, Absent, 0, "absent")

\* What a public entry point hands to its caller.  status "raised": an
\* exception left the entry point.
Result(status, errors, report, mode) ==
    [status |-> status, errors |-> errors, report |-> report, mode |-> mode,
     message |-> <<>>]

NoResult == Result("none", <<>>, <<>>, "")

\* _parse_result
parse_result_report_first(final_state) ==
    IF final_state.compliance_report # Absent /\ final_state.compliance_report # None
       /\ JsonDecodable(final_state.compliance_report)
    THEN Result("success", <<>>, final_state.compliance_report, "")
    ELSE Result("failed", final_state.errors, <<>>, "")
parse_result_dropping_raw(final_state) ==
    IF final_state.errors # <<>>
    THEN Result("failed", final_state.errors, <<>>, "")
    ELSE IF final_state.compliance_report # Absent
    THEN IF final_state.compliance_report = None
         THEN Result("raised", <<>>, <<>>, "")
         ELSE IF JsonDecodable(final_state.compliance_report)
         THEN Result("success", <<>>, final_state.compliance_report, "")
         ELSE Result("error", <<>>, <<>>, "")
    ELSE Result("unknown_error", <<>>, <<>>, "")
_parse_result(final_state) ==
    IF final_state.errors # <<>>
    THEN Result("failed", final_state.errors, <<>>, "")
    ELSE IF final_state.compliance_report # Absent
    THEN IF final_state.compliance_report = None
         THEN Result("raised", <<>>, <<>>, "")
         ELSE IF JsonDecodable(final_state.compliance_report)
         THEN Result("success", <<>>, final_state.compliance_report, "")
         ELSE Result("error", <<>>, final_state.compliance_report, "")
    ELSE Result("unknown_error", <<>>, <<>>, "")

-----------------------------------------------------------------------------
(* The LangGraph nodes *)

NoStoreSentinel == <<"ERROR", ": No store configured.">>
SkippedReport ==
    <<"{", "\"error\"", ":", "\"SKIPPED: Rules could not be extracted.\"", "}">>

\* What the generation service may return as response.text
RuleTexts == {<<"mask all email addresses">>, <<"never write ", "ERROR", " in a filing">>,
              <<>>, None}
ValidReport ==
    <<"{", "\"is_compliant\"", ":", "true", ",", "\"overallScore\"", ":", "0", ",",
      "\"detectionConfidence\"", ":", "\"High\"", ",", "\"totalViolations\"", ":", "0",
      ",", "\"violations\"", ":", "[", "]", "}">>

\* The fields of the ComplianceReport schema
ReportFields ==
    {"\"is_compliant\"", "\"overallScore\"", "\"detectionConfidence\"",
     "\"totalViolations\"", "\"violations\""}

\* t is the text of a JSON object that has every field of ComplianceReport
IsComplianceReport(t) ==
    /\ JsonDecodable(t)
    /\ t[1] = "{"
    /\ \A f \in ReportFields : \E i \in 1..Len(t) : t[i] = f
ReportTexts == {ValidReport, <<"{", "not valid json">>, None}

\* A call through call_gemini_with_retry, as the service sees it
GenCall(kind, store, filter, rules, content, r) ==
    [kind |-> kind, store |-> store, filter |-> filter, rules |-> rules,
     content |-> content, raised |-> r.raised,
     returned |-> IF r.raised THEN None ELSE r.text]

\* Stands for the outcome of a resilient call where none is made
NoCall == [raised |-> FALSE, text |-> None]

NoCalls == [extract |-> 0, verify |-> 0, delete |-> 0]

\* node_setup_context: the state after the node's update is merged, with the
\* remote state and the cache the resolver leaves
SetupContextAlwaysResolving(st, rem, u, a, env) ==
    LET ctx == prepare_compliance_context(rem, u, a, st.user_id, st.s3_key,
                                          st.file_id, env)
        same == [state |-> st, remote |-> rem, user |-> u, admin |-> a]
    IN IF ~Truthy(st.user_id)
       THEN [same EXCEPT !.state.errors = Append(@, <<"Missing user_id">>)]
       ELSE IF ctx.raised
       THEN [state |-> [st EXCEPT !.errors =
                            Append(@, <<"Context setup failed: ">> \o ctx.text)],
             remote |-> ctx.remote, user |-> ctx.user, admin |-> ctx.admin]
       ELSE [state |-> [st EXCEPT !.store_name = ctx.ctx.store_name,
                                  !.metadata_filter = ctx.ctx.metadata_filter,
                                  !.file_to_cleanup = ctx.ctx.file_to_cleanup,
                                  !.mode = ctx.ctx.mode],
             remote |-> ctx.remote, user |-> ctx.user, admin |-> ctx.admin]
SetupContext(st, rem, u, a, env) ==
    LET ctx == prepare_compliance_context(rem, u, a, st.user_id, st.s3_key,
                                          st.file_id, env)
        same == [state |-> st, remote |-> rem, user |-> u, admin |-> a]
    IN IF ~Truthy(st.user_id)
       THEN [same EXCEPT !.state.errors = Append(@, <<"Missing user_id">>)]
       ELSE IF st.store_name # 0 /\ st.mode = "custom"
       THEN [same EXCEPT !.state.metadata_filter = Get(@)]
       ELSE IF ctx.raised
       THEN [state |-> [st EXCEPT !.errors =
                            Append(@, <<"Context setup failed: ">> \o ctx.text)],
             remote |-> ctx.remote, user |-> ctx.user, admin |-> ctx.admin]
       ELSE [state |-> [st EXCEPT !.store_name = ctx.ctx.store_name,
                                  !.metadata_filter = ctx.ctx.metadata_filter,
                                  !.file_to_cleanup = ctx.ctx.file_to_cleanup,
                                  !.mode = ctx.ctx.mode],
             remote |-> ctx.remote, user |-> ctx.user, admin |-> ctx.admin]

\* node_extract_rules, the precondition: a store is configured
ExtractCallsOutAlways(st) == TRUE
ExtractCallsOut(st) == st.store_name # 0

\* node_extract_rules, the update, given what the resilient call did
ExtractUpdateDroppingError(st, r) ==
    IF ~ExtractCallsOut(st)
    THEN [st EXCEPT !.extracted_rules = NoStoreSentinel]
    ELSE IF r.raised
    THEN [st EXCEPT !.extracted_rules = <<"Error", ": ">> \o r.text]
    ELSE [st EXCEPT !.extracted_rules = r.text]
ExtractUpdate(st, r) ==
    IF ~ExtractCallsOut(st)
    THEN [st EXCEPT !.extracted_rules = NoStoreSentinel]
    ELSE IF r.raised
    THEN [st EXCEPT !.extracted_rules = <<"Error", ": ">> \o r.text,
                    !.errors = Append(@, r.text)]
    ELSE [st EXCEPT !.extracted_rules = r.text]

\* node_verify_compliance, the guard: "ERROR" in rules or not rules.
\* On None the test itself raises TypeError, outside any try.
VerifyRaises(st) == GetOr(st.extracted_rules, <<>>) = None
VerifySkips(st) ==
    LET rules == GetOr(st.extracted_rules, <<>>)
    IN Contains(<<"ERROR">>, rules) \/ rules = <<>>

\* node_verify_compliance, the update, given what the resilient call did
VerifyUpdateStoringReport(st, r) ==
    IF VerifySkips(st)
    THEN [st EXCEPT !.compliance_report = SkippedReport]
    ELSE IF r.raised
    THEN [st EXCEPT !.errors = Append(@, <<"Verification failed: ">> \o r.text),
                    !.compliance_report = SkippedReport]
    ELSE [st EXCEPT !.compliance_report = r.text]
VerifyUpdateReplacingErrors(st, r) ==
    IF VerifySkips(st)
    THEN [st EXCEPT !.compliance_report = SkippedReport]
    ELSE IF r.raised
    THEN [st EXCEPT !.errors = << <<"Verification failed: ">> \o r.text >>]
    ELSE [st EXCEPT !.compliance_report = r.text]
VerifyUpdate(st, r) ==
    IF VerifySkips(st)
    THEN [st EXCEPT !.compliance_report = SkippedReport]
    ELSE IF r.raised
    THEN [st EXCEPT !.errors = Append(@, <<"Verification failed: ">> \o r.text)]
    ELSE [st EXCEPT !.compliance_report = r.text]

\* node_cleanup, the guard: if file_to_cleanup and mode == "custom"
CleanupDeletesAnyMode(st) == st.file_to_cleanup # 0
CleanupDeletes(st) == st.file_to_cleanup # 0 /\ st.mode = "custom"

\* node_cleanup, the update: return {}, whether or not the delete raised
CleanupUpdateForgettingTarget(st, raised) == [st EXCEPT !.file_to_cleanup = 0]
CleanupUpdateEscalating(st, raised) ==
    IF raised THEN [st EXCEPT !.errors = Append(@, <<"Cleanup failed">>)] ELSE st
CleanupUpdate(st, raised) == st

-----------------------------------------------------------------------------
(* Inputs of the public calls *)

UserIds == {<<"u1">>, <<>>}
FileIds == {<<"f1">>}
S3Keys == {<<"rules.pdf">>}
Draft == <<"Name: Jane Doe, email jane@x.com">>

Envs(uploads, docs_oks, delete_oks) ==
    [list_ok : BOOLEAN, create_ok : BOOLEAN, docs_ok : docs_oks, upload : uploads,
     delete_ok : delete_oks]

\* A fresh remote name is left for the binary an upload would create
CanAllocate(env) == CreatesBinary(env.upload) => next_file <= MaxFiles

\* Room is left for the store a create would add
CanCreate(env) == env.create_ok => Len(stores) < MaxStores

\* The outcome of a remote call that is not made is no choice: the listing is
\* not asked on a cache hit, the create is not asked when the store was found
StoreCallsAsked(display_name, env) ==
    LET cached == CacheLookup(display_name, user_store_id, admin_store_id)
    IN /\ cached # 0 => env.list_ok /\ ~env.create_ok
       /\ (cached = 0 /\ env.list_ok /\ FindStore(display_name, stores) # 0)
             => ~env.create_ok

Threads == {1, 2}

NoQuery == [phase |-> "none"]
NoRetry == [phase |-> "none"]
NoUpload == [phase |-> "none"]

-----------------------------------------------------------------------------
(* Initial states *)

SeededRemote ==
    Remote(<<[name |-> 1, display_name |-> USER_STORE_NAME],
             [name |-> 2, display_name |-> ADMIN_STORE_NAME]>>,
           <<Doc(2, -1, Absent, Absent, StandardAdminRule, 1)>>, {1}, 2)

EmptyRemote == Remote(<<>>, <<>>, {}, 1)

InitRest ==
    /\ user_store_id = 0
    /\ admin_store_id = 0
    /\ state = NoState
    /\ pc = "idle"
    /\ call = [entry |-> "none", cleanup_after |-> FALSE]
    /\ trace = <<>>
    /\ n_calls = NoCalls
    /\ gen_calls = <<>>
    /\ deleted = {}
    /\ result = NoResult
    /\ budget = MaxPublicCalls
    /\ rname = USER_STORE_NAME
    /\ rpc = [t \in Threads |-> "idle"]
    /\ rret = [t \in Threads |-> 0]
    /\ fq = NoQuery
    /\ retry = NoRetry
    /\ xfer = NoUpload

\* A fresh process: nothing cached; the remote service is empty or holds the
\* two stores and the seeded admin rules of an earlier process
Init ==
    /\ \E rem \in {EmptyRemote, SeededRemote} :
         /\ stores = rem.stores
         /\ docs = rem.docs
         /\ files = rem.files
         /\ next_file = rem.next_file
    /\ InitRest

-----------------------------------------------------------------------------
(* Actions *)

SetRemote(rem) ==
    /\ stores' = rem.stores
    /\ docs' = rem.docs
    /\ files' = rem.files
    /\ next_file' = rem.next_file

\* compliance_app.invoke(initial state) from a public entry point
Invoke(entry, cleanup_after, st) ==
    /\ state' = st
    /\ pc' = "setup"
    /\ call' = [entry |-> entry, cleanup_after |-> cleanup_after]
    /\ trace' = <<>>
    /\ n_calls' = NoCalls
    /\ gen_calls' = <<>>
    /\ budget' = budget - 1

\* check_compliance_with_user_rules(user_id, file_id, ..., cleanup_after), up
\* to the invoke: get_user_context is called outside any try
CheckWithUserRules(user_id, file_id, cleanup_after, env) ==
    LET c == get_user_context(RemoteNow, user_store_id, admin_store_id, user_id,
                              file_id, env)
    IN /\ CanCreate(env)
       /\ StoreCallsAsked(USER_STORE_NAME, env)
       /\ SetRemote(c.remote)
       /\ user_store_id' = c.user
       /\ admin_store_id' = c.admin
       /\ IF c.raised
          THEN /\ result' = Result("raised", <<>>, <<>>, "")
               /\ budget' = budget - 1
               /\ UNCHANGED <<state, pc, call, trace, n_calls, gen_calls>>
          ELSE /\ Invoke("user_rules", cleanup_after,
                         ComplianceState(user_id, Draft, None, file_id,
                                         c.ctx.store_name, c.ctx.metadata_filter,
                                         0, "custom"))
               /\ result' = NoResult

check_compliance_with_user_rules ==
    /\ pc = "idle"
    /\ budget > 0
    /\ \E user_id \in UserIds, file_id \in FileIds, cleanup_after \in BOOLEAN,
          env \in Envs({"ok"}, {TRUE}, {TRUE}) :
         CheckWithUserRules(user_id, file_id, cleanup_after, env)
    /\ deleted' = {}
    /\ UNCHANGED <<side_vars>>

\* check_compliance_with_admin_rules, up to the invoke
check_compliance_with_admin_rules ==
    /\ pc = "idle"
    /\ budget > 0
    /\ \E user_id \in UserIds :
         Invoke("admin_rules", FALSE,
                ComplianceState(user_id, Draft, None, None, 0, Absent, 0, "absent"))
    /\ result' = NoResult
    /\ deleted' = {}
    /\ UNCHANGED <<remote_vars, cache_vars, side_vars>>

\* check_compliance_auto, up to the invoke
check_compliance_auto ==
    /\ pc = "idle"
    /\ budget > 0
    /\ \E user_id \in UserIds, s3_key \in S3Keys \cup {None}, file_id \in FileIds \cup {None} :
         Invoke("auto", FALSE,
                ComplianceState(user_id, Draft, s3_key,
                                IF Truthy(file_id) THEN file_id ELSE <<"auto_", "<time>">>,
                                0, Absent, 0, "absent"))
    /\ result' = NoResult
    /\ deleted' = {}
    /\ UNCHANGED <<remote_vars, cache_vars, side_vars>>

node_setup_context ==
    /\ pc = "setup"
    /\ \E env \in Envs(UploadOutcomes, BOOLEAN, {TRUE}) :
         /\ CanAllocate(env)
         /\ CanCreate(env)
         /\ StoreCallsAsked(IF Truthy(state.s3_key) THEN USER_STORE_NAME
                            ELSE ADMIN_STORE_NAME, env)
         /\ LET r == SetupContext(state, RemoteNow, user_store_id, admin_store_id, env)
            IN /\ state' = r.state
               /\ SetRemote(r.remote)
               /\ user_store_id' = r.user
               /\ admin_store_id' = r.admin
    /\ pc' = "extract"
    /\ trace' = Append(trace, "setup")
    /\ result' = NoResult
    /\ deleted' = {}
    /\ UNCHANGED <<call, n_calls, gen_calls, budget, side_vars>>

node_extract_rules ==
    /\ pc = "extract"
    /\ IF ExtractCallsOut(state)
       THEN \E fails \in FailCounts, text \in RuleTexts, cls \in ExcClasses :
              LET r == call_gemini_with_retry(fails, text, cls)
              IN /\ state' = ExtractUpdate(state, r)
                 /\ n_calls' = [n_calls EXCEPT !.extract = @ + 1]
                 /\ gen_calls' = Append(gen_calls,
                        GenCall("extract", state.store_name,
                                Get(state.metadata_filter), None, <<>>, r))
       ELSE /\ state' = ExtractUpdate(state, NoCall)
            /\ UNCHANGED <<n_calls, gen_calls>>
    /\ pc' = "verify"
    /\ trace' = Append(trace, "extract")
    /\ result' = NoResult
    /\ deleted' = {}
    /\ UNCHANGED <<remote_vars, cache_vars, call, budget, side_vars>>

node_verify_compliance ==
    /\ pc = "verify"
    /\ IF VerifyRaises(state)
       THEN /\ pc' = "raised"
            /\ UNCHANGED <<state, n_calls, gen_calls>>
       ELSE /\ pc' = "cleanup"
            /\ IF VerifySkips(state)
               THEN /\ state' = VerifyUpdate(state, NoCall)
                    /\ UNCHANGED <<n_calls, gen_calls>>
               ELSE \E fails \in FailCounts, text \in ReportTexts, cls \in ExcClasses :
                      LET r == call_gemini_with_retry(fails, text, cls)
                      IN /\ state' = VerifyUpdate(state, r)
                         /\ n_calls' = [n_calls EXCEPT !.verify = @ + 1]
                         /\ gen_calls' = Append(gen_calls,
                                GenCall("verify", 0, None, state.extracted_rules,
                                        state.user_content, r))
    /\ trace' = Append(trace, "verify")
    /\ result' = NoResult
    /\ deleted' = {}
    /\ UNCHANGED <<remote_vars, cache_vars, call, budget, side_vars>>

node_cleanup ==
    /\ pc = "cleanup"
    /\ IF CleanupDeletes(state)
       THEN \E ok \in BOOLEAN :
              LET del == FilesDelete(files, state.file_to_cleanup, ok)
              IN /\ files' = del.files
                 /\ state' = CleanupUpdate(state, del.raised)
                 /\ deleted' = {state.file_to_cleanup}
                 /\ n_calls' = [n_calls EXCEPT !.delete = @ + 1]
       ELSE /\ deleted' = {}
            /\ state' = CleanupUpdate(state, FALSE)
            /\ UNCHANGED <<files, n_calls>>
    /\ pc' = "done"
    /\ trace' = Append(trace, "cleanup")
    /\ result' = NoResult
    /\ UNCHANGED <<stores, docs, next_file, cache_vars, call, gen_calls, budget,
                   side_vars>>

\* The rest of the public entry point once invoke is over: the optional
\* cleanup_user_file, then _parse_result (and the mode, for check_compliance_auto)
return_result ==
    /\ pc \in {"done", "raised"}
    /\ IF pc = "done" /\ call.cleanup_after
       THEN \E env \in Envs({"ok"}, BOOLEAN, BOOLEAN) :
              LET c == cleanup_user_file(RemoteNow, user_store_id, admin_store_id,
                                         state.user_id, state.file_id, env)
              IN /\ CanCreate(env)
                 /\ StoreCallsAsked(USER_STORE_NAME, env)
                 /\ SetRemote(c.remote)
                 /\ user_store_id' = c.user
                 /\ admin_store_id' = c.admin
                 /\ deleted' = IF c.target # 0 THEN {c.target} ELSE {}
       ELSE /\ deleted' = {}
            /\ UNCHANGED <<remote_vars, cache_vars>>
    /\ result' = IF pc = "raised" THEN Result("raised", <<>>, <<>>, "")
                 ELSE IF call.entry = "auto"
                 THEN [_parse_result(state) EXCEPT !.mode =
                          IF state.mode = "absent" THEN "unknown" ELSE state.mode]
                 ELSE _parse_result(state)
    /\ pc' = "idle"
    /\ state' = NoState
    /\ trace' = <<>>
    /\ n_calls' = NoCalls
    /\ gen_calls' = <<>>
    /\ call' = [entry |-> "none", cleanup_after |-> FALSE]
    /\ UNCHANGED <<budget, side_vars>>

\* upload_user_rules
upload_user_rules ==
    /\ budget > 0
    /\ \E user_id \in UserIds, file_id \in FileIds, s3_key \in S3Keys,
          env \in Envs(UploadOutcomes, {TRUE}, {TRUE}) :
         /\ CanAllocate(env)
         /\ CanCreate(env)
         /\ StoreCallsAsked(USER_STORE_NAME, env)
         /\ LET c == upload_user_document(RemoteNow, user_store_id, admin_store_id,
                                          s3_key, user_id, file_id, env)
            IN /\ SetRemote(c.remote)
               /\ user_store_id' = c.user
               /\ admin_store_id' = c.admin
               /\ result' = [Result(c.status, <<>>, <<>>, "") EXCEPT !.message = c.message]
    /\ budget' = budget - 1
    /\ deleted' = {}
    /\ UNCHANGED <<state, pc, call, trace, n_calls, gen_calls, side_vars>>

\* delete_user_rules(user_id, file_id): what it does to the remote state and
\* the cache, and what it returns
DeleteUserRules(user_id, file_id, env) ==
    LET c == cleanup_user_file(RemoteNow, user_store_id, admin_store_id, user_id,
                               file_id, env)
    IN /\ CanCreate(env)
       /\ StoreCallsAsked(USER_STORE_NAME, env)
       /\ SetRemote(c.remote)
       /\ user_store_id' = c.user
       /\ admin_store_id' = c.admin
       /\ deleted' = IF c.target # 0 THEN {c.target} ELSE {}
       /\ result' = Result(c.status, <<>>, <<>>, "")

\* delete_user_rules
delete_user_rules ==
    /\ budget > 0
    /\ \E user_id \in UserIds, file_id \in FileIds, env \in Envs({"ok"}, BOOLEAN, BOOLEAN) :
         DeleteUserRules(user_id, file_id, env)
    /\ budget' = budget - 1
    /\ UNCHANGED <<state, pc, call, trace, n_calls, gen_calls, side_vars>>

Next ==
    \/ check_compliance_with_user_rules
    \/ check_compliance_with_admin_rules
    \/ check_compliance_auto
    \/ node_setup_context
    \/ node_extract_rules
    \/ node_verify_compliance
    \/ node_cleanup
    \/ return_result
    \/ upload_user_rules
    \/ delete_user_rules

Spec == Init /\ [][Next]_vars

-----------------------------------------------------------------------------
(* Properties of the pipeline, checked under Spec *)

StageOrder == <<"setup", "extract", "verify", "cleanup">>

IsPrefix(s, t) == Len(s) <= Len(t) /\ SubSeq(t, 1, Len(s)) = s

\* The calls of one kind the current run made through the retry wrapper
CallsOf(kind) == SelectSeq(gen_calls, LAMBDA c : c.kind = kind)

\* The text node_extract_rules stores when its resilient call raised
IsExtractFailureText(t) == \E cls \in ExcClasses : t = <<"Error", ": ">> \o RetryErrorText(cls)

\* The entry node_extract_rules appends to errors when its resilient call raised
IsExtractFailureEntry(e) == \E cls \in ExcClasses : e = RetryErrorText(cls)

\* The document entries tagged type = standard_admin_rule
AdminDocs == {i \in 1..Len(docs) : docs[i].type = StandardAdminRule}

\* C1: whatever the remote calls do and return, the nodes run in the order
\* setup, extract, verify, cleanup, each once, no node raises past its own
\* boundary, and a run that is over has run all four.
C1_AllStagesRunInOrder ==
    /\ pc # "raised"
    /\ IsPrefix(trace, StageOrder)
    /\ pc = "done" => trace = StageOrder

\* C3: no step of a pipeline run, of upload_user_rules or of delete_user_rules
\* issues a delete for the binary or the entry of a document tagged
\* type = standard_admin_rule, and the binary of every such document exists.
C3_AdminRulesNeverDeleted ==
    \A i \in AdminDocs :
        /\ docs[i].google_file_name \notin deleted
        /\ docs[i].name \notin deleted
        /\ docs[i].google_file_name \in files

\* C3 witness: a step issued a delete while the shared store held admin rules
C3_Witness == AdminDocs # {} /\ deleted # {} /\ pc = "done"

\* C7: when the extraction call exhausted its attempts, the finished run has
\* exactly one errors entry for the extraction failure and _parse_result
\* yields failed.
C7_ExtractionExhaustedFails ==
    (pc = "done" /\ Len(CallsOf("extract")) = 1 /\ CallsOf("extract")[1].raised) =>
        /\ Cardinality({i \in 1..Len(state.errors) :
                            IsExtractFailureEntry(state.errors[i])}) = 1
        /\ _parse_result(state).status = "failed"

\* C7 witness: a finished run whose set-up succeeded and whose extraction call
\* exhausted its attempts
C7_Witness ==
    /\ pc = "done"
    /\ state.store_name # 0
    /\ Len(CallsOf("extract")) = 1
    /\ CallsOf("extract")[1].raised
    /\ Len(state.errors) = 1

\* C8: when extracted_rules is empty or an error value stored by
\* node_extract_rules (the no-store sentinel, or the text stored when the
\* extraction call failed), node_verify_compliance makes no verification call
\* and stores the skipped report.
C8_VerifySkipsOnExtractError ==
    (pc \in {"cleanup", "done"}
       /\ (state.extracted_rules = <<>> \/ state.extracted_rules = NoStoreSentinel
           \/ IsExtractFailureText(state.extracted_rules))) =>
        /\ n_calls.verify = 0
        /\ state.compliance_report = SkippedReport

\* C9: when node_extract_rules stored non-empty text returned by the service,
\* node_verify_compliance makes exactly one resilient call, carrying that text
\* and user_content, and stores what the call returned as the report.
C9_VerifyCallsOnceWithRules ==
    (pc \in {"cleanup", "done"} /\ Len(CallsOf("extract")) = 1
       /\ ~CallsOf("extract")[1].raised /\ Truthy(state.extracted_rules)) =>
        /\ n_calls.verify = 1
        /\ Len(CallsOf("verify")) = 1
        /\ CallsOf("verify")[1].rules = state.extracted_rules
        /\ CallsOf("verify")[1].content = state.user_content
        /\ ~CallsOf("verify")[1].raised =>
               state.compliance_report = CallsOf("verify")[1].returned

\* C10: without a store node_extract_rules makes no external call and stores
\* the error sentinel; with a store it makes exactly one resilient call, scoped
\* by the state's store_name and metadata_filter, and stores the text returned.
C10_ExtractCallsOnceScoped ==
    pc \in {"verify", "cleanup", "done", "raised"} =>
        IF state.store_name = 0
        THEN /\ n_calls.extract = 0
             /\ CallsOf("extract") = <<>>
             /\ state.extracted_rules = NoStoreSentinel
        ELSE /\ n_calls.extract = 1
             /\ Len(CallsOf("extract")) = 1
             /\ CallsOf("extract")[1].store = state.store_name
             /\ CallsOf("extract")[1].filter = Get(state.metadata_filter)
             /\ ~CallsOf("extract")[1].raised =>
                    state.extracted_rules = CallsOf("extract")[1].returned

\* C10 witness: the extraction call of a custom-mode run returned text, and it
\* was scoped by the user's store and filter
C10_Witness ==
    /\ pc = "verify"
    /\ state.mode = "custom"
    /\ n_calls.extract = 1
    /\ CallsOf("extract")[1].store = state.store_name
    /\ CallsOf("extract")[1].filter = UserFilter(state.user_id, state.file_id)
    /\ Truthy(state.extracted_rules)

\* C13: a public check entry point that returns status success carries a report
\* with every field of ComplianceReport; the skipped report never comes back
\* as a success.
C13_SuccessCarriesValidReport ==
    [][(pc = "done" /\ pc' = "idle" /\ result'.status = "success") =>
          (IsComplianceReport(result'.report) /\ result'.report # SkippedReport)]_vars

\* C14: no public entry point lets an exception out, whatever remote call fails
\* and whatever the service returns: every call ends with a result value.
C14_EntryPointsNeverRaise == result.status # "raised"

\* C15: when the delete call of node_cleanup fails, no field of the state
\* changes, the run reaches the end of the graph, and _parse_result yields the
\* status it would have yielded had the delete succeeded.
C15_DeleteFailureNotEscalated ==
    [][(pc = "cleanup" /\ pc' # "cleanup" /\ deleted' # {} /\ files' = files) =>
          /\ state' = state
          /\ pc' = "done"
          /\ _parse_result(state').status = _parse_result(state).status]_vars

\* C15 witness: node_cleanup issued its delete, the delete failed (the binary
\* is still there), and the run is at the end of the graph
C15_Witness ==
    /\ pc = "done"
    /\ n_calls.delete = 1
    /\ deleted = {state.file_to_cleanup}
    /\ state.file_to_cleanup \in files

\* C16: in a custom-mode run whose node_setup_context uploaded the caller's
\* document, node_cleanup runs and issues exactly one delete, for the binary
\* that run uploaded, whether or not the extraction or the verification failed:
\* no such run ends without it.
C16_UploadedBinaryDeletedOnce ==
    /\ [](~(pc = "raised" /\ state.mode = "custom" /\ state.file_to_cleanup # 0))
    /\ [][(pc = "cleanup" /\ pc' = "done" /\ state.mode = "custom"
             /\ state.file_to_cleanup # 0) =>
             (deleted' = {state.file_to_cleanup} /\ n_calls'.delete = 1)]_vars

\* The entries of a store tagged type = standard_admin_rule
AdminDocsIn(ds, store) ==
    {i \in 1..Len(ds) : ds[i].store = store /\ ds[i].type = StandardAdminRule}

\* node_setup_context is about to call prepare_compliance_context
CallsResolver(st) == Truthy(st.user_id) /\ ~(st.store_name # 0 /\ st.mode = "custom")

\* C17: in a run with no s3_key the context the resolver hands back has mode
\* standard and the filter type = "standard_admin_rule"; when node_setup_context
\* is over the store it names holds an entry tagged standard_admin_rule, so one
\* is there before the extraction call; exactly one was added if the store had
\* none, and none was added if it had one.
C17_StandardModeSeedsOnce ==
    [][(pc = "setup" /\ pc' = "extract" /\ CallsResolver(state) /\ ~Truthy(state.s3_key)
          /\ state'.store_name # 0) =>
          /\ state'.mode = "standard"
          /\ state'.metadata_filter = AdminFilter
          /\ AdminDocsIn(docs', state'.store_name) # {}
          /\ AdminDocsIn(docs, state'.store_name) # {} => docs' = docs
          /\ AdminDocsIn(docs, state'.store_name) = {} =>
                 /\ Len(docs') = Len(docs) + 1
                 /\ Cardinality(AdminDocsIn(docs', state'.store_name)) = 1]_vars

\* C17 witness: a standard-mode run found no store and no admin rules, created
\* the admin store and seeded the rules, and is about to extract
C17_Witness ==
    /\ pc = "extract"
    /\ state.mode = "standard"
    /\ state.metadata_filter = AdminFilter
    /\ stores[1].display_name = ADMIN_STORE_NAME
    /\ state.store_name = 1
    /\ Len(docs) = 1
    /\ docs[1].type = StandardAdminRule

\* The entries of the stores named USER_STORE_NAME
UserStoreDocs(sts, ds) ==
    {i \in 1..Len(ds) : sts[ds[i].store].display_name = USER_STORE_NAME}

\* C18: the context prepare_compliance_context hands back has mode custom
\* exactly when an s3_key was given and mode standard exactly when none was.
\* With an s3_key exactly one entry is added, to the user store, tagged with
\* the caller's user_id, the file_id and type = custom_upload, and the filter
\* is user_id = "<user_id>" AND file_id = "<file_id>"; without one the entries
\* of the user store stay as they are.
C18_ModeFollowsDocumentReference ==
    [][(pc = "setup" /\ pc' = "extract" /\ CallsResolver(state) /\ state'.store_name # 0) =>
          LET fid == IF Truthy(state.file_id) THEN state.file_id
                     ELSE GeneratedFileId(state.user_id)
          IN /\ state'.mode = "custom" <=> Truthy(state.s3_key)
             /\ state'.mode = "standard" <=> ~Truthy(state.s3_key)
             /\ Truthy(state.s3_key) =>
                    /\ stores'[state'.store_name].display_name = USER_STORE_NAME
                    /\ Len(docs') = Len(docs) + 1
                    /\ SubSeq(docs', 1, Len(docs)) = docs
                    /\ docs'[Len(docs')].store = state'.store_name
                    /\ docs'[Len(docs')].user_id = state.user_id
                    /\ docs'[Len(docs')].file_id = fid
                    /\ docs'[Len(docs')].type = CustomUpload
                    /\ state'.metadata_filter =
                           <<"user_id", "=", Q>> \o state.user_id
                              \o <<Q, "AND", "file_id", "=", Q>> \o fid \o <<Q>>
             /\ ~Truthy(state.s3_key) =>
                    \A i \in UserStoreDocs(stores', docs') :
                        i <= Len(docs) /\ docs'[i] = docs[i]]_vars

\* C18 witness: a run given an s3_key is past node_setup_context in mode custom,
\* and the user store holds the entry uploaded for it
C18_Witness ==
    /\ pc = "extract"
    /\ state.mode = "custom"
    /\ Truthy(state.s3_key)
    /\ \E i \in UserStoreDocs(stores, docs) :
           /\ docs[i].google_file_name = state.file_to_cleanup
           /\ docs[i].type = CustomUpload
           /\ docs[i].user_id = state.user_id

\* The text of the error _upload_from_s3 raises when the binary ends FAILED
ProcessingFailedText == UploadErrorText("processing_failed", <<>>)

\* C20: when the processing of the transferred binary ends FAILED, the upload
\* raises and no entry is added to any store; upload_user_rules then returns
\* status error, and node_setup_context appends exactly one error and leaves
\* store_name, metadata_filter, file_to_cleanup and mode unset.
C20_ProcessingFailureIsHardError ==
    [][/\ result'.message = <<"Upload failed: ">> \o ProcessingFailedText =>
             (result'.status = "error" /\ docs' = docs)
       /\ (pc = "setup" /\ pc' = "extract" /\ state'.errors # <<>>
             /\ state'.errors[Len(state'.errors)] =
                    <<"Context setup failed: ">> \o ProcessingFailedText) =>
             /\ state'.errors = Append(state.errors, <<"Context setup failed: ">>
                                                        \o ProcessingFailedText)
             /\ docs' = docs
             /\ state'.store_name = 0
             /\ state'.metadata_filter = Absent
             /\ state'.file_to_cleanup = 0
             /\ state'.mode = "absent"]_vars

\* C20 witness: node_setup_context transferred the caller's document, its
\* processing ended FAILED, and the run goes on with that one error and no
\* context
C20_Witness ==
    /\ pc = "extract"
    /\ Truthy(state.s3_key)
    /\ state.errors = <<<<"Context setup failed: ">> \o ProcessingFailedText>>
    /\ state.store_name = 0
    /\ next_file - 1 \in files

\* The stores of a list that carry one display name
StoresNamed(display_name, sts) ==
    {i \in 1..Len(sts) : sts[i].display_name = display_name}

\* C25: _get_or_create_store creates a store only when the name is not cached
\* and no remote store carries that display name; so whatever calls were made
\* one after the other, listing failures included, no two remote stores carry
\* the same display name.
C25_CreateOnlyAsLastResort ==
    [][/\ \A i \in (Len(stores) + 1)..Len(stores') :
             /\ CacheLookup(stores'[i].display_name, user_store_id, admin_store_id) = 0
             /\ StoresNamed(stores'[i].display_name, stores) = {}
       /\ \A i \in 1..Len(stores') :
             Cardinality(StoresNamed(stores'[i].display_name, stores')) = 1]_vars

\* C26: errors is append-only across a run: after each node the list is the
\* list before it followed by zero or more new entries.
C26_ErrorsAppendOnly ==
    [][(pc \in {"setup", "extract", "verify", "cleanup"} /\ pc' # pc) =>
          IsPrefix(state.errors, state'.errors)]_vars

\* C26 witness: a run is through node_verify_compliance with two entries in
\* errors, the extraction's first and the verification's after it
C26_Witness ==
    /\ pc = "cleanup"
    /\ Len(state.errors) = 2
    /\ state.errors[1] = RetryErrorText("ServerError")
    /\ state.errors[2] = <<"Verification failed: ">> \o RetryErrorText("ClientError")

\* C28: when user_id is absent or empty, node_setup_context appends the
\* configuration error without calling the resolver or any remote service,
\* node_extract_rules and node_verify_compliance issue no generation call and
\* node_cleanup issues no delete, whichever public check started the run.
C28_NoUserIdShortCircuits ==
    [][(~Truthy(state.user_id) /\ pc' # pc) =>
          /\ pc = "setup" =>
                /\ state'.errors = Append(state.errors, <<"Missing user_id">>)
                /\ UNCHANGED <<remote_vars, cache_vars>>
          /\ pc \in {"extract", "verify"} => gen_calls' = gen_calls
          /\ pc = "cleanup" => (deleted' = {} /\ files' = files)]_vars

\* The entry node_verify_compliance appends when its call gave up
IsVerifyFailureEntry(e) ==
    \E cls \in ExcClasses : e = <<"Verification failed: ">> \o RetryErrorText(cls)

\* C33: when the verification call exhausts its attempts,
\* node_verify_compliance appends exactly one entry to errors, stores no
\* report and leaves extracted_rules as they were; node_cleanup still runs,
\* and _parse_result answers failed.
C33_VerifyExhaustedFails ==
    [][/\ (pc = "verify" /\ pc' # pc /\ Len(gen_calls') > Len(gen_calls)
             /\ gen_calls'[Len(gen_calls')].raised) =>
            /\ pc' = "cleanup"
            /\ Len(state'.errors) = Len(state.errors) + 1
            /\ IsPrefix(state.errors, state'.errors)
            /\ IsVerifyFailureEntry(state'.errors[Len(state'.errors)])
            /\ state'.compliance_report = state.compliance_report
            /\ state.compliance_report = Absent
            /\ state'.extracted_rules = state.extracted_rules
       /\ (pc = "done" /\ pc' = "idle"
             /\ \E i \in 1..Len(state.errors) : IsVerifyFailureEntry(state.errors[i])) =>
            /\ trace = StageOrder
            /\ result'.status = "failed"
            /\ result'.errors = state.errors
            /\ result'.report = <<>>]_vars

\* C33 witness: the rules were extracted, the verification call gave up, and
\* the run went through node_cleanup to a failed result with that one entry
C33_Witness ==
    /\ pc = "idle"
    /\ result.status = "failed"
    /\ Len(result.errors) = 1
    /\ IsVerifyFailureEntry(result.errors[1])

\* The keys of ComplianceState, and the keys each node's update may carry
StateFields == DOMAIN NoState
SetupFields == {"store_name", "metadata_filter", "file_to_cleanup", "mode", "errors"}
ExtractFields == {"extracted_rules", "errors"}
VerifyFields == {"compliance_report", "errors"}
ChangedFields == {f \in StateFields : state'[f] # state[f]}

\* C34: each node changes only its own keys of ComplianceState:
\* node_setup_context only store_name, metadata_filter, file_to_cleanup, mode
\* and errors; node_extract_rules only extracted_rules and errors;
\* node_verify_compliance only compliance_report and errors; node_cleanup
\* none; user_id, user_content, s3_key and file_id are changed by no node.
C34_NodesChangeOwnFields ==
    [][(pc \in {"setup", "extract", "verify", "cleanup"} /\ pc' # pc) =>
          /\ pc = "setup" => ChangedFields \subseteq SetupFields
          /\ pc = "extract" => ChangedFields \subseteq ExtractFields
          /\ pc = "verify" => ChangedFields \subseteq VerifyFields
          /\ pc = "cleanup" => ChangedFields = {}
          /\ ChangedFields \cap {"user_id", "user_content", "s3_key", "file_id"} = {}]_vars

\* C34 witness: a custom run is through all four nodes; setup resolved a store
\* and a file to clean up, extraction and verification wrote their texts
C34_Witness ==
    /\ pc = "done"
    /\ trace = StageOrder
    /\ state.mode = "custom"
    /\ state.store_name # 0
    /\ state.file_to_cleanup # 0
    /\ state.extracted_rules \notin {Absent, None}
    /\ state.compliance_report = ValidReport
    /\ state.errors = <<>>

\* The documents a step imported, and the binaries it transferred
ImportedDocs == {docs'[i] : i \in (Len(docs) + 1)..Len(docs')}
TransferredBinaries == files' \ files

\* C35: every document an upload imports into a store carries in
\* google_file_name the name of the binary transferred for that same
\* document, in the user store and the admin store alike, whether
\* upload_user_rules, node_setup_context in custom mode or the admin seeding
\* made it; so the delete cleanup_user_file issues is for the binary of the
\* document it matched, and for no other document's.
C35_DocsCarryTheirBinary ==
    [][/\ IsPrefix(docs, docs')
       /\ \A d \in ImportedDocs :
             /\ TransferredBinaries = {d.google_file_name}
             /\ \A i \in 1..Len(docs) : docs[i].google_file_name # d.google_file_name
       /\ (deleted' # {} /\ pc # "cleanup") =>
             \E i \in 1..Len(docs) :
                /\ deleted' = {docs[i].google_file_name}
                /\ docs[i].type = CustomUpload
                /\ \A j \in 1..Len(docs) :
                      docs[j].google_file_name = docs[i].google_file_name => j = i
                /\ (pc = "done" /\ pc' = "idle") =>
                      /\ docs[i].user_id = Str(state.user_id)
                      /\ docs[i].file_id = Str(state.file_id)]_vars

\* C35 witness: on a remote service that was empty, a standard run has
\* seeded the admin store and an upload has then imported a user's document;
\* each of the two documents carries its own binary's name
C35_Witness ==
    /\ Len(stores) = 2
    /\ stores[1].display_name = ADMIN_STORE_NAME
    /\ stores[2].display_name = USER_STORE_NAME
    /\ Len(docs) = 2
    /\ docs[1].store = 1 /\ docs[1].type = StandardAdminRule
    /\ docs[2].store = 2 /\ docs[2].type = CustomUpload
    /\ docs[1].google_file_name # docs[2].google_file_name
    /\ files = {docs[1].google_file_name, docs[2].google_file_name}

\* C36: once node_setup_context has run, mode "standard" implies
\* file_to_cleanup is unset; node_setup_context sets file_to_cleanup only to
\* the name of the binary it has itself just uploaded, and no later node
\* changes it; a run of check_compliance_with_user_rules, against rules
\* uploaded beforehand, has file_to_cleanup unset throughout.
C36_CleanupTargetIsOwnUpload ==
    [][/\ pc' \in {"extract", "verify", "cleanup", "done", "raised"} =>
             (state'.mode = "standard" => state'.file_to_cleanup = 0)
       /\ (pc = "setup" /\ pc' = "extract" /\ state'.file_to_cleanup # 0) =>
             /\ TransferredBinaries = {state'.file_to_cleanup}
             /\ state.file_to_cleanup = 0
       /\ (pc \in {"extract", "verify", "cleanup"} /\ pc' # pc) =>
             state'.file_to_cleanup = state.file_to_cleanup
       /\ call'.entry = "user_rules" => state'.file_to_cleanup = 0]_vars

\* C36 witness: an automatic run is past node_setup_context, which uploaded
\* the run's rules; file_to_cleanup names their binary
C36_Witness ==
    /\ pc = "extract"
    /\ call.entry = "auto"
    /\ state.mode = "custom"
    /\ state.file_to_cleanup \in files
    /\ \E i \in 1..Len(docs) : docs[i].google_file_name = state.file_to_cleanup

\* C39: every final state a run started by a public check reaches has a
\* non-empty errors list or a compliance_report, so _parse_result answers
\* failed, error or success, never unknown_error.
C39_ParsedStatusIsKnown ==
    [][(pc = "done" /\ pc' = "idle") =>
          /\ state.errors # <<>> \/ state.compliance_report # Absent
          /\ result'.status \in {"failed", "error", "success"}]_vars

-----------------------------------------------------------------------------
(* node_cleanup on any pipeline state *)

AnyState ==
    {[ComplianceState(user_id, Draft, None, file_id, store_name, metadata_filter,
                      file_to_cleanup, mode)
        EXCEPT !.extracted_rules = rules, !.compliance_report = report,
               !.errors = errors] :
        user_id \in UserIds, file_id \in FileIds \cup {None}, store_name \in {0, 1, 2},
        metadata_filter \in {Absent, AdminFilter}, file_to_cleanup \in {0, 1, 2},
        mode \in {"absent", "None", "custom", "standard"},
        rules \in {NoStoreSentinel, <<"mask all email addresses">>},
        report \in {Absent, ValidReport},
        errors \in {<<>>, <<<<"Missing user_id">>>>}}

\* A run that is about to enter node_cleanup, in any state a caller of
\* compliance_app or the earlier nodes may have left
InitCleanup ==
    /\ stores = SeededRemote.stores
    /\ docs = SeededRemote.docs
    /\ files \in {{1}, {1, 2}}
    /\ next_file = 3
    /\ user_store_id = 0
    /\ admin_store_id = 0
    /\ state \in AnyState
    /\ pc = "cleanup"
    /\ call = [entry |-> "invoke", cleanup_after |-> FALSE]
    /\ trace = <<"setup", "extract", "verify">>
    /\ n_calls = NoCalls
    /\ gen_calls = <<>>
    /\ deleted = {}
    /\ result = NoResult
    /\ budget = 0
    /\ rname = USER_STORE_NAME
    /\ rpc = [t \in Threads |-> "idle"]
    /\ rret = [t \in Threads |-> 0]
    /\ fq = NoQuery
    /\ retry = NoRetry
    /\ xfer = NoUpload

NextCleanup == node_cleanup

SpecCleanup == InitCleanup /\ [][NextCleanup]_vars

\* C2: in a state whose mode is standard, or was never set, node_cleanup issues
\* no remote delete, whatever file_to_cleanup holds: no delete is counted or
\* recorded and the remote binaries stay as they are.
C2_NoDeleteUnlessCustom ==
    [][(pc = "cleanup" /\ state.mode # "custom") =>
          (deleted' = {} /\ n_calls' = n_calls /\ files' = files)]_vars

\* C2 witness: node_cleanup has run in standard mode on a state naming an
\* existing binary as file_to_cleanup, and the binary is still there
C2_Witness ==
    /\ pc = "done"
    /\ state.mode = "standard"
    /\ state.file_to_cleanup \in files
    /\ n_calls.delete = 0

-----------------------------------------------------------------------------
(* The scope filter, as the file search service evaluates it *)

\* The value of the tag `key` of document d (None: no such tag)
Tag(d, key) ==
    CASE key = "user_id" -> Get(d.user_id)
      [] key = "file_id" -> Get(d.file_id)
      [] key = "type" -> Get(d.type)
      [] OTHER -> None

\* Index of the next double quote of t at or after i, 0 if none
RECURSIVE NextQuote(_, _)
NextQuote(t, i) ==
    IF i > Len(t) THEN 0
    ELSE IF t[i] = Q THEN i
    ELSE NextQuote(t, i + 1)

Parsed(ok, val, next) == [ok |-> ok, val |-> val, next |-> next]

\* A comparison  key = "value"  starting at index i of filter t, evaluated on d
EvalComparison(t, i, d) ==
    IF i + 2 <= Len(t) /\ t[i] \in {"user_id", "file_id", "type"} /\ t[i + 1] = "="
       /\ t[i + 2] = Q /\ NextQuote(t, i + 3) # 0
    THEN Parsed(TRUE, Tag(d, t[i]) = SubSeq(t, i + 3, NextQuote(t, i + 3) - 1),
                NextQuote(t, i + 3) + 1)
    ELSE Parsed(FALSE, FALSE, i)

\* Comparisons joined by OR; in the filter syntax OR binds tighter than AND
RECURSIVE EvalFactor(_, _, _)
EvalFactor(t, i, d) ==
    LET c == EvalComparison(t, i, d)
    IN IF c.ok /\ c.next <= Len(t) /\ t[c.next] = "OR"
       THEN LET rest == EvalFactor(t, c.next + 1, d)
            IN Parsed(rest.ok, c.val \/ rest.val, rest.next)
       ELSE c

\* Factors joined by AND
RECURSIVE EvalExpression(_, _, _)
EvalExpression(t, i, d) ==
    LET f == EvalFactor(t, i, d)
    IN IF f.ok /\ f.next <= Len(t) /\ t[f.next] = "AND"
       THEN LET rest == EvalExpression(t, f.next + 1, d)
            IN Parsed(rest.ok, f.val /\ rest.val, rest.next)
       ELSE f

\* Document d satisfies metadata_filter t
Matches(t, d) ==
    LET e == EvalExpression(t, 1, d)
    IN e.ok /\ e.next = Len(t) + 1 /\ e.val

\* The documents of store that a file search scoped by metadata_filter reads
FileSearch(ds, store, metadata_filter) ==
    {i \in 1..Len(ds) : ds[i].store = store /\ Matches(metadata_filter, ds[i])}

\* Identifiers a caller may pass: plain ones, and ones holding a double quote
QuotedUser == <<"u1", Q, "OR", "user_id", "=", Q, "u2">>
QuotedFile == <<"f1", Q, "OR", "file_id", "=", Q, "f2">>
AnyUserIds == {<<"u1">>, <<"u2">>, QuotedUser}
AnyFileIds == {<<"f1">>, <<"f2">>, QuotedFile}

\* The user store holding one document per plain (user, file) pair, uploaded
\* by earlier runs, their binaries expired since
PopulatedRemote ==
    Remote(<<[name |-> 1, display_name |-> USER_STORE_NAME]>>,
           <<Doc(1, -11, <<"u1">>, <<"f1">>, CustomUpload, 0),
             Doc(1, -12, <<"u1">>, <<"f2">>, CustomUpload, 0),
             Doc(1, -21, <<"u2">>, <<"f1">>, CustomUpload, 0),
             Doc(1, -22, <<"u2">>, <<"f2">>, CustomUpload, 0)>>,
           {}, 1)

InitFilter ==
    /\ stores = PopulatedRemote.stores
    /\ docs = PopulatedRemote.docs
    /\ files = PopulatedRemote.files
    /\ next_file = PopulatedRemote.next_file
    /\ user_store_id = 0
    /\ admin_store_id = 0
    /\ state = NoState
    /\ pc = "idle"
    /\ call = [entry |-> "none", cleanup_after |-> FALSE]
    /\ trace = <<>>
    /\ n_calls = NoCalls
    /\ gen_calls = <<>>
    /\ deleted = {}
    /\ result = NoResult
    /\ budget = 0
    /\ rname = USER_STORE_NAME
    /\ rpc = [t \in Threads |-> "idle"]
    /\ rret = [t \in Threads |-> 0]
    /\ \E user_id \in AnyUserIds, file_id \in AnyFileIds :
         fq = [phase |-> "input", user_id |-> user_id, file_id |-> file_id,
               store |-> 0, filter |-> None, selected |-> {}]
    /\ retry = NoRetry
    /\ xfer = NoUpload

\* The context resolver builds the filter on the upload path
\* (prepare_compliance_context with a document reference)
resolve_uploading ==
    /\ fq.phase = "input"
    /\ \E s3_key \in S3Keys, env \in Envs(UploadOutcomes, {TRUE}, {TRUE}) :
         /\ CanAllocate(env)
         /\ CanCreate(env)
         /\ StoreCallsAsked(USER_STORE_NAME, env)
         /\ LET c == prepare_compliance_context(RemoteNow, user_store_id,
                         admin_store_id, fq.user_id, s3_key, fq.file_id, env)
            IN /\ SetRemote(c.remote)
               /\ user_store_id' = c.user
               /\ admin_store_id' = c.admin
               /\ fq' = IF c.raised THEN [fq EXCEPT !.phase = "failed"]
                        ELSE [fq EXCEPT !.phase = "resolved",
                                        !.store = c.ctx.store_name,
                                        !.filter = c.ctx.metadata_filter]
    /\ UNCHANGED <<state, pc, call, trace, n_calls, gen_calls, deleted, result, budget,
                   rname, rpc, rret, retry, xfer>>

\* The context resolver builds the filter for a pre-uploaded document
\* (get_user_context)
resolve_preuploaded ==
    /\ fq.phase = "input"
    /\ \E env \in Envs({"ok"}, {TRUE}, {TRUE}) :
         /\ CanCreate(env)
         /\ StoreCallsAsked(USER_STORE_NAME, env)
         /\ LET c == get_user_context(RemoteNow, user_store_id, admin_store_id,
                                      fq.user_id, fq.file_id, env)
            IN /\ SetRemote(c.remote)
               /\ user_store_id' = c.user
               /\ admin_store_id' = c.admin
               /\ fq' = IF c.raised THEN [fq EXCEPT !.phase = "failed"]
                        ELSE [fq EXCEPT !.phase = "resolved",
                                        !.store = c.ctx.store_name,
                                        !.filter = c.ctx.metadata_filter]
    /\ UNCHANGED <<state, pc, call, trace, n_calls, gen_calls, deleted, result, budget,
                   rname, rpc, rret, retry, xfer>>

\* The extraction call's file search tool reads the store through the filter
file_search ==
    /\ fq.phase = "resolved"
    /\ fq' = [fq EXCEPT !.phase = "searched",
                        !.selected = FileSearch(docs, fq.store, fq.filter)]
    /\ UNCHANGED <<remote_vars, cache_vars, state, pc, call, trace, n_calls, gen_calls,
                   deleted, result, budget, rname, rpc, rret, retry, xfer>>

NextFilter ==
    \/ resolve_uploading
    \/ resolve_preuploaded
    \/ file_search

SpecFilter == InitFilter /\ [][NextFilter]_vars

\* C4: for every pair of identifier strings, the filter the context resolver
\* builds selects only documents whose user_id tag and file_id tag equal that
\* pair.
C4_FilterSelectsOnlyThePair ==
    fq.phase = "searched" =>
        \A i \in fq.selected :
            /\ Get(docs[i].user_id) = Str(fq.user_id)
            /\ Get(docs[i].file_id) = Str(fq.file_id)

-----------------------------------------------------------------------------
(* _get_or_create_store called from two threads of one process: a thread may
   be preempted at each remote call *)

InitResolve ==
    /\ \E rem \in {EmptyRemote, SeededRemote} :
         /\ stores = rem.stores
         /\ docs = rem.docs
         /\ files = rem.files
         /\ next_file = rem.next_file
    /\ user_store_id = 0
    /\ admin_store_id = 0
    /\ state = NoState
    /\ pc = "idle"
    /\ call = [entry |-> "none", cleanup_after |-> FALSE]
    /\ trace = <<>>
    /\ n_calls = NoCalls
    /\ gen_calls = <<>>
    /\ deleted = {}
    /\ result = NoResult
    /\ budget = 0
    /\ rname \in {USER_STORE_NAME, ADMIN_STORE_NAME}
    /\ rpc = [t \in Threads |-> "idle"]
    /\ rret = [t \in Threads |-> 0]
    /\ fq = NoQuery
    /\ retry = NoRetry
    /\ xfer = NoUpload

\* The handle is cached and returned
ResolveReturn(t, handle) ==
    /\ user_store_id' = CacheUser(rname, handle, user_store_id)
    /\ admin_store_id' = CacheAdmin(rname, handle, admin_store_id)
    /\ rret' = [rret EXCEPT ![t] = handle]
    /\ rpc' = [rpc EXCEPT ![t] = "done"]

\* The call and its cache check
resolve_check_cache(t) ==
    /\ rpc[t] = "idle"
    /\ LET cached == CacheLookup(rname, user_store_id, admin_store_id)
       IN IF cached # 0
          THEN /\ rret' = [rret EXCEPT ![t] = cached]
               /\ rpc' = [rpc EXCEPT ![t] = "done"]
          ELSE /\ rpc' = [rpc EXCEPT ![t] = "list"]
               /\ UNCHANGED rret
    /\ UNCHANGED <<remote_vars, cache_vars, state, pc, call, trace, n_calls, gen_calls,
                   deleted, result, budget, rname, fq, retry, xfer>>

\* The remote listing and the search in it; a listing that raises is skipped
resolve_list(t) ==
    /\ rpc[t] = "list"
    /\ \E list_ok \in BOOLEAN :
         LET found == IF list_ok THEN FindStore(rname, stores) ELSE 0
         IN IF found # 0
            THEN ResolveReturn(t, found)
            ELSE /\ rpc' = [rpc EXCEPT ![t] = "create"]
                 /\ UNCHANGED <<cache_vars, rret>>
    /\ UNCHANGED <<remote_vars, state, pc, call, trace, n_calls, gen_calls, deleted,
                   result, budget, rname, fq, retry, xfer>>

\* The remote create; when it raises the call raises
resolve_create(t) ==
    /\ rpc[t] = "create"
    /\ \E create_ok \in BOOLEAN :
         IF create_ok
         THEN /\ Len(stores) < MaxStores
              /\ stores' = CreateStore(rname, stores)
              /\ ResolveReturn(t, Len(stores) + 1)
         ELSE /\ rpc' = [rpc EXCEPT ![t] = "raised"]
              /\ UNCHANGED <<stores, cache_vars, rret>>
    /\ UNCHANGED <<docs, files, next_file, state, pc, call, trace, n_calls, gen_calls,
                   deleted, result, budget, rname, fq, retry, xfer>>

NextResolve ==
    \/ \E t \in Threads : resolve_check_cache(t)
    \/ \E t \in Threads : resolve_list(t)
    \/ \E t \in Threads : resolve_create(t)

SpecResolve == InitResolve /\ [][NextResolve]_vars

\* C5: any two calls for one display name on one manager, sequential or
\* interleaved, return handles of the same remote store.
C5_SameHandleForSameName ==
    \A t1, t2 \in Threads :
        (rpc[t1] = "done" /\ rpc[t2] = "done") => rret[t1] = rret[t2]

-----------------------------------------------------------------------------
(* One call through call_gemini_with_retry *)

InitRetry ==
    /\ stores = EmptyRemote.stores
    /\ docs = EmptyRemote.docs
    /\ files = EmptyRemote.files
    /\ next_file = EmptyRemote.next_file
    /\ user_store_id = 0
    /\ admin_store_id = 0
    /\ state = NoState
    /\ pc = "idle"
    /\ call = [entry |-> "none", cleanup_after |-> FALSE]
    /\ trace = <<>>
    /\ n_calls = NoCalls
    /\ gen_calls = <<>>
    /\ deleted = {}
    /\ result = NoResult
    /\ budget = 0
    /\ rname = USER_STORE_NAME
    /\ rpc = [t \in Threads |-> "idle"]
    /\ rret = [t \in Threads |-> 0]
    /\ fq = NoQuery
    /\ xfer = NoUpload
    /\ \E fails \in FailCounts, text \in RuleTexts \cup ReportTexts, cls \in ExcClasses :
         retry = [phase |-> "input", fails |-> fails, text |-> text, cls |-> cls,
                  raised |-> FALSE, returned |-> None, attempts |-> 0, waits |-> <<>>]

\* The decorated function is called once and the retry loop runs to its end
invoke_with_retry ==
    /\ retry.phase = "input"
    /\ LET r == call_gemini_with_retry(retry.fails, retry.text, retry.cls)
       IN retry' = [retry EXCEPT !.phase = "done", !.raised = r.raised,
                                 !.returned = r.text, !.attempts = r.attempts,
                                 !.waits = r.waits]
    /\ UNCHANGED <<remote_vars, cache_vars, state, pc, call, trace, n_calls, gen_calls,
                   deleted, result, budget, rname, rpc, rret, fq, xfer>>

NextRetry == invoke_with_retry

SpecRetry == InitRetry /\ [][NextRetry]_vars

\* C6: one call makes at most 4 attempts, every wait between attempts lies
\* between 2 and 20 and the waits double from 2, and the waits add up to at
\* most 2+4+8+16 = 30.
C6_AttemptsAndWaitsBounded ==
    retry.phase = "done" =>
        /\ retry.attempts \in 1..4
        /\ Len(retry.waits) = retry.attempts - 1
        /\ \A k \in 1..Len(retry.waits) :
               /\ retry.waits[k] >= 2
               /\ retry.waits[k] <= 20
               /\ retry.waits[k] = IF k = 1 THEN 2 ELSE 2 * retry.waits[k - 1]
        /\ Sum(retry.waits) <= 2 + 4 + 8 + 16

\* C6 witness: every attempt failed, and the call gave up after the waits 2, 4, 8
C6_Witness ==
    /\ retry.phase = "done"
    /\ retry.raised
    /\ retry.attempts = 4
    /\ retry.waits = <<2, 4, 8>>

\* C32: attempt k+1 is made only if attempt k raised and k < 4, and the first
\* attempt that returns ends the call with its value, whatever the value is:
\* the number of attempts is the index of the first attempt that does not
\* raise, or 4 when all four raise, and then the call raises to its caller.
C32_FirstReturnEndsTheCall ==
    retry.phase = "done" =>
        IF retry.fails < StopAfterAttempt
        THEN /\ ~retry.raised
             /\ retry.returned = retry.text
             /\ retry.attempts = retry.fails + 1
        ELSE /\ retry.raised
             /\ retry.attempts = StopAfterAttempt

\* C32 witness: two attempts raised, the third returned a text that holds
\* the word ERROR, and the call ended there with that text
C32_Witness ==
    /\ retry.phase = "done"
    /\ retry.fails = 2
    /\ retry.attempts = 3
    /\ ~retry.raised
    /\ Contains(<<"ERROR">>, retry.returned)

-----------------------------------------------------------------------------
(* _parse_result on any final state compliance_app.invoke may hand back *)

TerminalErrors ==
    {<<>>, <<<<"Missing user_id">>>>,
     <<RetryErrorText("ServerError"), <<"Verification failed: ">> \o RetryErrorText("ClientError")>>,
     <<<<"Verification failed: ">> \o RetryErrorText("ClientError"), RetryErrorText("ServerError")>>}

TerminalReports == {Absent, None, ValidReport, SkippedReport, <<"{", "not valid json">>, <<>>}

TerminalStates ==
    {[ComplianceState(<<"u1">>, Draft, None, None, 2, AdminFilter, 0, mode)
        EXCEPT !.extracted_rules = <<"mask all email addresses">>,
               !.compliance_report = report, !.errors = errors] :
        mode \in {"absent", "custom", "standard"}, report \in TerminalReports,
        errors \in TerminalErrors}

\* compliance_app.invoke has just returned to one of the public entry points
InitParse ==
    /\ stores = SeededRemote.stores
    /\ docs = SeededRemote.docs
    /\ files = SeededRemote.files
    /\ next_file = SeededRemote.next_file
    /\ user_store_id = 0
    /\ admin_store_id = 0
    /\ state \in TerminalStates
    /\ pc = "done"
    /\ \E entry \in {"user_rules", "admin_rules", "auto"} :
         call = [entry |-> entry, cleanup_after |-> FALSE]
    /\ trace = StageOrder
    /\ n_calls = NoCalls
    /\ gen_calls = <<>>
    /\ deleted = {}
    /\ result = NoResult
    /\ budget = 0
    /\ rname = USER_STORE_NAME
    /\ rpc = [t \in Threads |-> "idle"]
    /\ rret = [t \in Threads |-> 0]
    /\ fq = NoQuery
    /\ retry = NoRetry
    /\ xfer = NoUpload

NextParse == return_result

SpecParse == InitParse /\ [][NextParse]_vars

\* C11: for a final state whose errors list is not empty, _parse_result yields
\* status failed carrying that very list, same entries in the same order,
\* whether or not the state also holds a report.
C11_FailedCarriesErrorsVerbatim ==
    [][(pc = "done" /\ state.errors # <<>>) =>
          (result'.status = "failed" /\ result'.errors = state.errors)]_vars

\* C11 witness: a state holding two different errors and a report was parsed
\* into a failed result listing the retry error before the verification error
C11_Witness ==
    /\ pc = "idle"
    /\ result.status = "failed"
    /\ Len(result.errors) = 2
    /\ result.errors[1] = RetryErrorText("ServerError")

\* C12: for a final state with no errors whose report is a text json.loads
\* cannot decode, _parse_result yields status error carrying that text
\* unchanged and does not raise.
C12_UndecodableReportIsError ==
    [][(pc = "done" /\ state.errors = <<>> /\ state.compliance_report # Absent
          /\ state.compliance_report # None /\ ~JsonDecodable(state.compliance_report)) =>
          (result'.status = "error" /\ result'.report = state.compliance_report)]_vars

\* C12 witness: the report "{not valid json" came back as status error with the
\* raw text
C12_Witness ==
    /\ pc = "idle"
    /\ result.status = "error"
    /\ result.report = <<"{", "not valid json">>

-----------------------------------------------------------------------------
(* _upload_from_s3 taken step by step: download, files.upload, the wait for
   processing, import_file *)

\* uploaded_file.state.name
ProcessingStates == {"PROCESSING", "ACTIVE", "FAILED"}

\* The calls of _upload_from_s3 the manager makes: a user's document into the
\* user store, the default admin rules into the admin store
UploadRequests ==
    {[store |-> 1, s3_key |-> s3_key, user_id |-> Str(user_id), file_id |-> Str(file_id),
      type |-> CustomUpload] : s3_key \in S3Keys, user_id \in UserIds, file_id \in FileIds}
    \cup {[store |-> 2, s3_key |-> ADMIN_DEFAULT_S3_KEY, user_id |-> Absent,
           file_id |-> Absent, type |-> StandardAdminRule]}

\* The seeded remote after its binaries have expired
ExpiredRemote == Remote(SeededRemote.stores, SeededRemote.docs, {}, SeededRemote.next_file)

InitUpload ==
    /\ \E rem \in {SeededRemote, ExpiredRemote} :
         /\ stores = rem.stores
         /\ docs = rem.docs
         /\ files = rem.files
         /\ next_file = rem.next_file
    /\ user_store_id = 1
    /\ admin_store_id = 2
    /\ state = NoState
    /\ pc = "idle"
    /\ call = [entry |-> "none", cleanup_after |-> FALSE]
    /\ trace = <<>>
    /\ n_calls = NoCalls
    /\ gen_calls = <<>>
    /\ deleted = {}
    /\ result = NoResult
    /\ budget = 0
    /\ rname = USER_STORE_NAME
    /\ rpc = [t \in Threads |-> "idle"]
    /\ rret = [t \in Threads |-> 0]
    /\ fq = NoQuery
    /\ retry = NoRetry
    /\ \E req \in UploadRequests :
         xfer = [phase |-> "download", req |-> req, name |-> 0, status |-> "NONE",
                 polls |-> 0, text |-> <<>>]

UploadRaise(outcome) ==
    xfer' = [xfer EXCEPT !.phase = "raised",
                         !.text = UploadErrorText(outcome, xfer.req.s3_key)]

UploadRest ==
    UNCHANGED <<cache_vars, state, pc, call, trace, n_calls, gen_calls, deleted, result,
                budget, rname, rpc, rret, fq, retry>>

\* The presigned URL and the download into a temporary file
upload_download ==
    /\ xfer.phase = "download"
    /\ \E outcome \in {"ok", "s3_missing", "download_failed"} :
         IF outcome = "ok"
         THEN xfer' = [xfer EXCEPT !.phase = "upload"]
         ELSE UploadRaise(outcome)
    /\ UNCHANGED remote_vars
    /\ UploadRest

\* client.files.upload: the binary exists from here on, in some processing state
upload_files_upload ==
    /\ xfer.phase = "upload"
    /\ \E ok \in BOOLEAN, status \in ProcessingStates :
         IF ok
         THEN /\ files' = files \cup {next_file}
              /\ next_file' = next_file + 1
              /\ xfer' = [xfer EXCEPT !.phase = "poll", !.name = next_file,
                                      !.status = status]
         ELSE /\ UploadRaise("upload_failed")
              /\ UNCHANGED <<files, next_file>>
    /\ UNCHANGED <<stores, docs>>
    /\ UploadRest

\* The test of the while loop and, once it is left, the test for FAILED
upload_check_state ==
    /\ xfer.phase = "poll"
    /\ IF xfer.status = "PROCESSING"
       THEN xfer' = [xfer EXCEPT !.phase = "sleep"]
       ELSE IF xfer.status = "FAILED"
       THEN UploadRaise("processing_failed")
       ELSE xfer' = [xfer EXCEPT !.phase = "import"]
    /\ UNCHANGED remote_vars
    /\ UploadRest

\* The body of the while loop: time.sleep(1), then client.files.get
upload_files_get ==
    /\ xfer.phase = "sleep"
    /\ \E ok \in BOOLEAN, status \in ProcessingStates :
         IF ok
         THEN xfer' = [xfer EXCEPT !.phase = "poll", !.status = status,
                                   !.polls = Min(@ + 1, MaxPolls)]
         ELSE xfer' = [xfer EXCEPT !.phase = "raised", !.text = <<"files.get failed">>]
    /\ UNCHANGED remote_vars
    /\ UploadRest

\* client.file_search_stores.import_file with the metadata and google_file_name
upload_import_file ==
    /\ xfer.phase = "import"
    /\ \E ok \in BOOLEAN :
         IF ok
         THEN /\ docs' = Append(docs, Doc(xfer.req.store, -xfer.name, xfer.req.user_id,
                                          xfer.req.file_id, xfer.req.type, xfer.name))
              /\ xfer' = [xfer EXCEPT !.phase = "done"]
         ELSE /\ UploadRaise("import_failed")
              /\ UNCHANGED docs
    /\ UNCHANGED <<stores, files, next_file>>
    /\ UploadRest

NextUpload ==
    \/ upload_download
    \/ upload_files_upload
    \/ upload_check_state
    \/ upload_files_get
    \/ upload_import_file

\* The interpreter keeps running the call: a step that can be taken is taken
SpecUpload == InitUpload /\ [][NextUpload]_vars /\ WF_vars(NextUpload)

\* C19: every call of _upload_from_s3 comes to an end, returning the binary's
\* name or raising, even when the processing state of the binary stays
\* PROCESSING for ever: the wait is bounded.
C19_UploadTerminates == <>(xfer.phase \in {"done", "raised"})

-----------------------------------------------------------------------------
(* delete_user_rules called again and again for one (user_id, file_id) on a
   user store holding any documents *)

\* Documents a user store may hold: two for (u1, f1), one of u1 for another
\* file, one of another user, one for (u1, f1) whose google_file_name is missing
StoredDocs ==
    {Doc(1, -1, <<"u1">>, <<"f1">>, CustomUpload, 1),
     Doc(1, -2, <<"u1">>, <<"f1">>, CustomUpload, 2),
     Doc(1, -3, <<"u1">>, <<"f2">>, CustomUpload, 3),
     Doc(1, -4, <<"u2">>, <<"f1">>, CustomUpload, 4),
     Doc(1, -5, <<"u1">>, <<"f1">>, CustomUpload, 0)}

\* The listings of the user store: up to two documents, in any order
StoredListings ==
    {<<>>} \cup {<<d>> : d \in StoredDocs}
           \cup {<<p[1], p[2]>> : p \in {q \in StoredDocs \X StoredDocs : q[1] # q[2]}}

\* The binaries the documents of a listing name
BinariesOf(ds) == {ds[i].google_file_name : i \in 1..Len(ds)} \ {0}

InitDelete ==
    /\ stores = <<[name |-> 1, display_name |-> USER_STORE_NAME]>>
    /\ docs \in StoredListings
    /\ files \in {BinariesOf(docs), {}}
    /\ next_file = 6
    /\ user_store_id \in {0, 1}
    /\ admin_store_id = 0
    /\ state = NoState
    /\ pc = "idle"
    /\ \E user_id \in {<<"u1">>, <<"u2">>}, file_id \in FileIds :
         call = [entry |-> "delete_user_rules", cleanup_after |-> FALSE,
                 user_id |-> user_id, file_id |-> file_id]
    /\ trace = <<>>
    /\ n_calls = NoCalls
    /\ gen_calls = <<>>
    /\ deleted = {}
    /\ result = NoResult
    /\ budget = MaxPublicCalls
    /\ rname = USER_STORE_NAME
    /\ rpc = [t \in Threads |-> "idle"]
    /\ rret = [t \in Threads |-> 0]
    /\ fq = NoQuery
    /\ retry = NoRetry
    /\ xfer = NoUpload

\* delete_user_rules for the pair of this session
delete_user_rules_again ==
    /\ budget > 0
    /\ \E env \in Envs({"ok"}, BOOLEAN, BOOLEAN) :
         DeleteUserRules(call.user_id, call.file_id, env)
    /\ budget' = budget - 1
    /\ UNCHANGED <<state, pc, call, trace, n_calls, gen_calls, side_vars>>

NextDelete == delete_user_rules_again

SpecDelete == InitDelete /\ [][NextDelete]_vars

\* The positions, in the listing of a store, of the documents tagged with both
\* the user_id and the file_id of this session
MatchingIn(ds, store) ==
    {i \in 1..Len(ds) : /\ ds[i].store = store
                        /\ ds[i].user_id = call.user_id
                        /\ ds[i].file_id = call.file_id}

\* The name a delete for document d is issued for
DeleteTargetOf(d) == IF d.google_file_name # 0 THEN d.google_file_name ELSE d.name

\* The first of a non-empty set of positions
First(S) == CHOOSE i \in S : \A j \in S : i <= j

-----------------------------------------------------------------------------
(* Rules uploaded once by upload_user_rules, then checked against again and
   again without cleanup, then deleted *)

\* What a successful upload_user_rules("u1", "f1") leaves, on a service that
\* held nothing or held the seeded stores
UploadedOnce ==
    {c \in {upload_user_document(rem, 0, 0, <<"rules/u1.pdf">>, <<"u1">>, <<"f1">>, env) :
              rem \in {EmptyRemote, SeededRemote},
              env \in Envs({"ok"}, {TRUE}, {TRUE})} : c.status = "success"}

InitReuse ==
    /\ \E c \in UploadedOnce :
         /\ stores = c.remote.stores
         /\ docs = c.remote.docs
         /\ files = c.remote.files
         /\ next_file = c.remote.next_file
         /\ user_store_id = c.user
         /\ admin_store_id = c.admin
    /\ state = NoState
    /\ pc = "idle"
    /\ call = [entry |-> "upload_user_rules", cleanup_after |-> FALSE]
    /\ trace = <<>>
    /\ n_calls = NoCalls
    /\ gen_calls = <<>>
    /\ deleted = {}
    /\ result = Result("success", <<>>, <<>>, "")
    /\ budget = MaxPublicCalls
    /\ rname = USER_STORE_NAME
    /\ rpc = [t \in Threads |-> "idle"]
    /\ rret = [t \in Threads |-> 0]
    /\ fq = NoQuery
    /\ retry = NoRetry
    /\ xfer = NoUpload

\* check_compliance_with_user_rules("u1", "f1", ..., cleanup_after=False)
check_preuploaded ==
    /\ pc = "idle"
    /\ budget > 0
    /\ \E env \in Envs({"ok"}, {TRUE}, {TRUE}) :
         CheckWithUserRules(<<"u1">>, <<"f1">>, FALSE, env)
    /\ deleted' = {}
    /\ UNCHANGED <<side_vars>>

\* delete_user_rules("u1", "f1"), once no run is under way
delete_uploaded ==
    /\ pc = "idle"
    /\ budget > 0
    /\ \E env \in Envs({"ok"}, BOOLEAN, BOOLEAN) :
         DeleteUserRules(<<"u1">>, <<"f1">>, env)
    /\ budget' = budget - 1
    /\ UNCHANGED <<state, pc, call, trace, n_calls, gen_calls, side_vars>>

NextReuse ==
    \/ check_preuploaded
    \/ node_setup_context
    \/ node_extract_rules
    \/ node_verify_compliance
    \/ node_cleanup
    \/ return_result
    \/ delete_uploaded

SpecReuse == InitReuse /\ [][NextReuse]_vars

\* The documents upload_user_rules("u1", "f1") registered
UploadedDocs ==
    {i \in 1..Len(docs) : /\ docs[i].user_id = <<"u1">>
                          /\ docs[i].file_id = <<"f1">>
                          /\ docs[i].type = CustomUpload}

\* A step of a check run: the invoke, a node, or the return
IsCheckStep == pc' # pc \/ pc # "idle"

-----------------------------------------------------------------------------
(* Cleanups racing for one (user_id, file_id): the node_cleanup of a run, the
   node_cleanup of another run for the same upload, and delete_user_rules *)

\* The binary the racing cleanups are after, and its document
RacedBinary == 2
RacedDoc == Doc(1, -2, <<"u1">>, <<"f1">>, CustomUpload, RacedBinary)

\* A run for ("u1", "f1") that uploaded the binary and is about to enter
\* node_cleanup, whatever the earlier nodes left
RacingStates ==
    {[ComplianceState(<<"u1">>, Draft, <<"rules/u1.pdf">>, <<"f1">>, 1,
                      UserFilter(<<"u1">>, <<"f1">>), RacedBinary, "custom")
        EXCEPT !.extracted_rules = <<"mask all email addresses">>,
               !.compliance_report = report, !.errors = errors] :
        report \in TerminalReports \ {None}, errors \in TerminalErrors}

InitRace ==
    /\ stores = SeededRemote.stores
    /\ docs = SeededRemote.docs \o <<RacedDoc>>
    /\ files = SeededRemote.files \cup {RacedBinary}
    /\ next_file = RacedBinary + 1
    /\ user_store_id \in {0, 1}
    /\ admin_store_id = 0
    /\ state \in RacingStates
    /\ pc = "cleanup"
    /\ call = [entry |-> "auto", cleanup_after |-> FALSE]
    /\ trace = <<"setup", "extract", "verify">>
    /\ n_calls = NoCalls
    /\ gen_calls = <<>>
    /\ deleted = {}
    /\ result = NoResult
    /\ budget = MaxPublicCalls
    /\ rname = USER_STORE_NAME
    /\ rpc = [t \in Threads |-> "idle"]
    /\ rret = [t \in Threads |-> 0]
    /\ fq = NoQuery
    /\ retry = NoRetry
    /\ xfer = NoUpload

\* delete_user_rules("u1", "f1") from another thread, at any point of the run
delete_racing ==
    /\ budget > 0
    /\ \E env \in Envs({"ok"}, BOOLEAN, BOOLEAN) :
         DeleteUserRules(<<"u1">>, <<"f1">>, env)
    /\ budget' = budget - 1
    /\ UNCHANGED <<state, pc, call, trace, n_calls, gen_calls, side_vars>>

\* node_cleanup of another run for the same upload: its client.files.delete,
\* whose failure it logs
cleanup_of_other_run ==
    /\ \E ok \in BOOLEAN : files' = FilesDelete(files, RacedBinary, ok).files
    /\ deleted' = {RacedBinary}
    /\ UNCHANGED <<stores, docs, next_file, cache_vars, state, pc, call, trace,
                   n_calls, gen_calls, result, budget, side_vars>>

NextRace ==
    \/ node_cleanup
    \/ return_result
    \/ delete_racing
    \/ cleanup_of_other_run

SpecRace == InitRace /\ [][NextRace]_vars

\* C23: when cleanups for one (user_id, file_id) race, the one that finds the
\* binary gone is tolerated: node_cleanup still completes, appends nothing to
\* errors and leaves what the result is computed from as it was; and a
\* delete_user_rules whose delete was issued for a binary that was already
\* gone answers not_found.
C23_LostRaceIsNotFound ==
    [][/\ pc = "cleanup" /\ pc' # pc =>
            /\ pc' = "done"
            /\ state'.errors = state.errors
            /\ _parse_result(state') = _parse_result(state)
       /\ (budget' < budget /\ deleted' # {} /\ deleted' \cap files = {}) =>
            result'.status = "not_found"]_vars

\* The documents of the user store registered for the raced upload
RacedDocsIn(ds) ==
    {i \in 1..Len(ds) : /\ ds[i].store = RacedDoc.store
                        /\ ds[i].user_id = RacedDoc.user_id
                        /\ ds[i].file_id = RacedDoc.file_id}

\* C27: cleanup deletes the document: once delete_user_rules has answered
\* success, or node_cleanup of a custom-mode run has deleted successfully, the
\* listing of the user store holds no document for that upload, and an
\* extraction scoped to the pair matches nothing.
C27_CleanupRemovesDocument ==
    [][(\/ budget' < budget /\ result'.status = "success"
        \/ pc = "cleanup" /\ pc' = "done" /\ deleted' \cap files # {}
                          /\ deleted' \cap files' = {}) =>
          /\ RacedDocsIn(docs') = {}
          /\ FileSearch(docs', RacedDoc.store,
                        UserFilter(RacedDoc.user_id, RacedDoc.file_id)) = {}]_vars

-----------------------------------------------------------------------------
(* Two runs of check_compliance_auto with rules to upload, for two different
   users, interleaved node by node.  Here state, pc, call, trace, gen_calls
   and result hold one entry per run. *)

Runs == {1, 2}

\* The arguments of the two calls: different users, the same file_id
PairUser(r) == IF r = 1 THEN <<"u1">> ELSE <<"u2">>
PairKey(r) == IF r = 1 THEN <<"rules/u1.pdf">> ELSE <<"rules/u2.pdf">>
PairFile(r) == <<"f1">>

\* What the generation service reads through the file_search tool: the rules
\* of every document of the store that the metadata_filter matches
RECURSIVE RulesOfDocs(_, _, _)
RulesOfDocs(ds, matched, i) ==
    IF i > Len(ds) THEN <<>>
    ELSE (IF i \in matched THEN <<"rules of ">> \o ds[i].user_id ELSE <<>>)
            \o RulesOfDocs(ds, matched, i + 1)
RulesRead(ds, store, metadata_filter) ==
    RulesOfDocs(ds, FileSearch(ds, store, metadata_filter), 1)

\* What the remote services answered to one run
PairUploads == {"ok", "s3_missing", "import_failed"}
PairFails == {0, StopAfterAttempt}
NoAnswers ==
    [resolve_raised |-> FALSE, upload |-> "ok", extract_fails |-> 0,
     verify_fails |-> 0, verify_text |-> ValidReport]

\* The state check_compliance_auto hands to compliance_app.invoke
PairStart(r) ==
    ComplianceState(PairUser(r), Draft, PairKey(r), PairFile(r), 0, Absent, 0, "absent")

InitPair ==
    /\ stores \in {<<>>, <<[name |-> 1, display_name |-> USER_STORE_NAME]>>}
    /\ docs = <<>>
    /\ files = {}
    /\ next_file = 1
    /\ user_store_id = 0
    /\ admin_store_id = 0
    /\ state = [r \in Runs |-> PairStart(r)]
    /\ pc = [r \in Runs |-> "setup"]
    /\ call = [r \in Runs |-> NoAnswers]
    /\ trace = [r \in Runs |-> <<>>]
    /\ n_calls = NoCalls
    /\ gen_calls = [r \in Runs |-> <<>>]
    /\ deleted = {}
    /\ result = [r \in Runs |-> NoResult]
    /\ budget = 0
    /\ rname = USER_STORE_NAME
    /\ rpc = [t \in Threads |-> "idle"]
    /\ rret = [t \in Threads |-> 0]
    /\ fq = NoQuery
    /\ retry = NoRetry
    /\ xfer = NoUpload

\* node_setup_context of run r
pair_setup_context(r) ==
    /\ pc[r] = "setup"
    /\ \E env \in Envs(PairUploads, {TRUE}, {TRUE}) :
         /\ CanAllocate(env)
         /\ CanCreate(env)
         /\ StoreCallsAsked(USER_STORE_NAME, env)
         /\ LET x == SetupContext(state[r], RemoteNow, user_store_id, admin_store_id, env)
                raised == _get_or_create_store(USER_STORE_NAME, user_store_id,
                              admin_store_id, stores, env.list_ok, env.create_ok).raised
            IN /\ raised => env.upload = "ok"
               /\ state' = [state EXCEPT ![r] = x.state]
               /\ SetRemote(x.remote)
               /\ user_store_id' = x.user
               /\ admin_store_id' = x.admin
               /\ call' = [call EXCEPT ![r].resolve_raised = raised,
                                       ![r].upload = env.upload]
    /\ pc' = [pc EXCEPT ![r] = "extract"]
    /\ trace' = [trace EXCEPT ![r] = Append(@, "setup")]
    /\ deleted' = {}
    /\ UNCHANGED <<n_calls, gen_calls, result, budget, side_vars>>

\* node_extract_rules of run r
pair_extract_rules(r) ==
    /\ pc[r] = "extract"
    /\ IF ExtractCallsOut(state[r])
       THEN \E fails \in PairFails :
              LET x == call_gemini_with_retry(fails,
                           RulesRead(docs, state[r].store_name,
                                     Get(state[r].metadata_filter)), "ServerError")
              IN /\ state' = [state EXCEPT ![r] = ExtractUpdate(state[r], x)]
                 /\ gen_calls' = [gen_calls EXCEPT ![r] = Append(@,
                        GenCall("extract", state[r].store_name,
                                Get(state[r].metadata_filter), None, <<>>, x))]
                 /\ call' = [call EXCEPT ![r].extract_fails = fails]
       ELSE /\ state' = [state EXCEPT ![r] = ExtractUpdate(state[r], NoCall)]
            /\ UNCHANGED <<gen_calls, call>>
    /\ pc' = [pc EXCEPT ![r] = "verify"]
    /\ trace' = [trace EXCEPT ![r] = Append(@, "extract")]
    /\ deleted' = {}
    /\ UNCHANGED <<remote_vars, cache_vars, n_calls, result, budget, side_vars>>

\* node_verify_compliance of run r
pair_verify_compliance(r) ==
    /\ pc[r] = "verify"
    /\ IF VerifyRaises(state[r])
       THEN /\ pc' = [pc EXCEPT ![r] = "raised"]
            /\ UNCHANGED <<state, gen_calls, call>>
       ELSE /\ pc' = [pc EXCEPT ![r] = "cleanup"]
            /\ IF VerifySkips(state[r])
               THEN /\ state' = [state EXCEPT ![r] = VerifyUpdate(state[r], NoCall)]
                    /\ UNCHANGED <<gen_calls, call>>
               ELSE \E fails \in PairFails, text \in ReportTexts \ {None} :
                      LET x == call_gemini_with_retry(fails, text, "ServerError")
                      IN /\ fails # 0 => text = ValidReport
                         /\ state' = [state EXCEPT ![r] = VerifyUpdate(state[r], x)]
                         /\ gen_calls' = [gen_calls EXCEPT ![r] = Append(@,
                                GenCall("verify", 0, None, state[r].extracted_rules,
                                        state[r].user_content, x))]
                         /\ call' = [call EXCEPT ![r].verify_fails = fails,
                                                 ![r].verify_text = text]
    /\ trace' = [trace EXCEPT ![r] = Append(@, "verify")]
    /\ deleted' = {}
    /\ UNCHANGED <<remote_vars, cache_vars, n_calls, result, budget, side_vars>>

\* node_cleanup of run r
pair_cleanup(r) ==
    /\ pc[r] = "cleanup"
    /\ IF CleanupDeletes(state[r])
       THEN \E ok \in BOOLEAN :
              LET del == FilesDelete(files, state[r].file_to_cleanup, ok)
              IN /\ files' = del.files
                 /\ state' = [state EXCEPT ![r] = CleanupUpdate(state[r], del.raised)]
                 /\ deleted' = {state[r].file_to_cleanup}
       ELSE /\ deleted' = {}
            /\ state' = [state EXCEPT ![r] = CleanupUpdate(state[r], FALSE)]
            /\ UNCHANGED files
    /\ pc' = [pc EXCEPT ![r] = "done"]
    /\ trace' = [trace EXCEPT ![r] = Append(@, "cleanup")]
    /\ UNCHANGED <<stores, docs, next_file, cache_vars, call, n_calls, gen_calls,
                   result, budget, side_vars>>

\* What check_compliance_auto returns for a final state
AutoResult(final_state) ==
    [_parse_result(final_state) EXCEPT !.mode =
        IF final_state.mode = "absent" THEN "unknown" ELSE final_state.mode]

\* check_compliance_auto of run r, once invoke is over
pair_return_result(r) ==
    /\ pc[r] \in {"done", "raised"}
    /\ result' = [result EXCEPT ![r] =
                     IF pc[r] = "raised" THEN Result("raised", <<>>, <<>>, "")
                     ELSE AutoResult(state[r])]
    /\ pc' = [pc EXCEPT ![r] = "idle"]
    /\ deleted' = {}
    /\ UNCHANGED <<remote_vars, cache_vars, state, call, trace, n_calls, gen_calls,
                   budget, side_vars>>

NextPair ==
    \E r \in Runs :
       \/ pair_setup_context(r)
       \/ pair_extract_rules(r)
       \/ pair_verify_compliance(r)
       \/ pair_cleanup(r)
       \/ pair_return_result(r)

SpecPair == InitPair /\ [][NextPair]_vars

\* The same call with no other run around: the nodes one after the other on a
\* service that holds nothing, given the same answers
AloneFinalState(r, answers) ==
    LET env == [list_ok |-> ~answers.resolve_raised, create_ok |-> ~answers.resolve_raised,
                docs_ok |-> TRUE, upload |-> answers.upload, delete_ok |-> TRUE]
        s1 == SetupContext(PairStart(r), EmptyRemote, 0, 0, env)
        ex == call_gemini_with_retry(answers.extract_fails,
                  RulesRead(s1.remote.docs, s1.state.store_name,
                            Get(s1.state.metadata_filter)), "ServerError")
        s2 == ExtractUpdate(s1.state, IF ExtractCallsOut(s1.state) THEN ex ELSE NoCall)
        vr == call_gemini_with_retry(answers.verify_fails, answers.verify_text,
                                     "ServerError")
        s3 == VerifyUpdate(s2, IF VerifySkips(s2) THEN NoCall ELSE vr)
    IN CleanupUpdate(s3, FALSE)

\* The documents a run uploaded: those tagged with its user
DocsOfRun(r) == {i \in 1..Len(docs) : docs[i].user_id = PairUser(r)}

-----------------------------------------------------------------------------
(* admin_manage.py, the command-line utility for the admin store, run between
   calls of _get_or_create_store on a manager of the service *)

\* str.lower(), lexeme by lexeme
LowerLexeme(x) ==
    CASE x = "YES" -> "yes"
      [] x = "Yes" -> "yes"
      [] x = "CLEAR" -> "clear"
      [] x = "Delete" -> "delete"
      [] x = "DELETE STORE" -> "delete store"
      [] OTHER -> x
Lower(t) == IF t = None THEN None ELSE [i \in 1..Len(t) |-> LowerLexeme(t[i])]

\* sys.argv[1] (None: no argument given) and what is typed at the prompt
Commands ==
    {None, <<"list">>, <<"clear">>, <<"CLEAR">>, <<"delete">>, <<"Delete">>, <<"purge">>}
Confirms ==
    {<<"yes">>, <<"YES">>, <<"y">>, <<"no">>, <<>>, <<"DELETE STORE">>, <<"delete store">>}

\* A store deleted remotely keeps its place in the listing as a gap
DeletedStore == "<deleted>"
StoreExists(handle, sts) ==
    handle \in 1..Len(sts) /\ sts[handle].display_name # DeletedStore

\* A destructive call sent to the service
Destructive(api, name) == [api |-> api, name |-> name]

\* What a command hands back: the service after it, the destructive calls sent
Done(rem, log) == [remote |-> rem, log |-> log]

\* What the service answers to the calls of the utility
AdminEnvs == [list_ok : BOOLEAN, docs_ok : BOOLEAN, files_ok : BOOLEAN, delete_ok : BOOLEAN]

\* find_admin_store
find_admin_store(sts) == FindStore(ADMIN_STORE_NAME, sts)

\* clear_all_documents, the loop over the documents listed: delete the binary
\* when google_file_name is there, then the document entry
RECURSIVE ClearDocs(_, _, _, _, _)
ClearDocs(rem, ds, i, log, env) ==
    IF i > Len(ds) THEN Done(rem, log)
    ELSE LET file_to_del == ds[i].google_file_name
             del == FilesDelete(rem.files, file_to_del, env.files_ok)
             log1 == IF file_to_del # 0
                     THEN Append(log, Destructive("files.delete", file_to_del))
                     ELSE log
             rem1 == IF file_to_del # 0 THEN [rem EXCEPT !.files = del.files] ELSE rem
             rem2 == IF env.delete_ok
                     THEN [rem1 EXCEPT !.docs = SelectSeq(@, LAMBDA d : d.name # ds[i].name)]
                     ELSE rem1
         IN ClearDocs(rem2, ds, i + 1,
                      Append(log1, Destructive("documents.delete", ds[i].name)), env)

\* clear_all_documents
clear_all_documents_unconfirmed(rem, confirm, env) ==
    LET store_id == find_admin_store(rem.stores)
        ds == ListDocs(rem.docs, store_id)
    IN IF ~env.list_ok \/ store_id = 0 \/ ~env.docs_ok \/ ds = <<>>
       THEN Done(rem, <<>>)
       ELSE ClearDocs(rem, ds, 1, <<>>, env)
clear_all_documents(rem, confirm, env) ==
    LET store_id == find_admin_store(rem.stores)
        ds == ListDocs(rem.docs, store_id)
    IN IF ~env.list_ok \/ store_id = 0 \/ ~env.docs_ok \/ ds = <<>>
       THEN Done(rem, <<>>)
       ELSE IF Lower(confirm) = <<"yes">>
       THEN ClearDocs(rem, ds, 1, <<>>, env)
       ELSE Done(rem, <<>>)

\* delete_entire_store: the forced delete takes the documents of the store along
delete_entire_store(rem, confirm, env) ==
    LET store_id == find_admin_store(rem.stores)
    IN IF ~env.list_ok \/ store_id = 0 \/ confirm # <<"DELETE STORE">>
       THEN Done(rem, <<>>)
       ELSE Done(IF env.delete_ok
                 THEN [rem EXCEPT !.stores[store_id].display_name = DeletedStore,
                                  !.docs = SelectSeq(@, LAMBDA d : d.store # store_id)]
                 ELSE rem,
                 <<Destructive("file_search_stores.delete", store_id)>>)

\* The script body: the dispatch on sys.argv
admin_manage_main(rem, command, confirm, env) ==
    IF command = None THEN Done(rem, <<>>)
    ELSE IF Lower(command) = <<"list">> THEN Done(rem, <<>>)
    ELSE IF Lower(command) = <<"clear">> THEN clear_all_documents(rem, confirm, env)
    ELSE IF Lower(command) = <<"delete">> THEN delete_entire_store(rem, confirm, env)
    ELSE Done(rem, <<>>)

\* Which step came last: a run of the utility with its argument and the text
\* typed, or a call of _get_or_create_store
Ran(entry, command, confirm) ==
    [entry |-> entry, cleanup_after |-> FALSE, command |-> command, confirm |-> confirm]

InitAdmin ==
    /\ stores = SeededRemote.stores
    /\ docs = <<Doc(2, -1, Absent, Absent, StandardAdminRule, 1),
                Doc(1, -2, <<"u1">>, <<"f1">>, CustomUpload, 2),
                Doc(2, -3, Absent, Absent, StandardAdminRule, 0)>>
    /\ files \in {{1, 2}, {2}}
    /\ next_file = 3
    /\ user_store_id = 0
    /\ admin_store_id = 0
    /\ state = NoState
    /\ pc = "idle"
    /\ call = Ran("none", None, <<>>)
    /\ trace = <<>>
    /\ n_calls = NoCalls
    /\ gen_calls = <<>>
    /\ deleted = {}
    /\ result = NoResult
    /\ budget = 0
    /\ rname = USER_STORE_NAME
    /\ rpc = [t \in Threads |-> "idle"]
    /\ rret = [t \in Threads |-> 0]
    /\ fq = NoQuery
    /\ retry = NoRetry
    /\ xfer = NoUpload

\* The answer to a question that is not asked is no choice: nothing is typed
\* without a prompt, and a call that is not sent does not fail
AdminCallsAsked(command, confirm, env) ==
    LET prompted == Lower(command) \in {<<"clear">>, <<"delete">>}
        clearing == Lower(command) = <<"clear">> /\ Lower(confirm) = <<"yes">>
        deleting == Lower(command) = <<"delete">> /\ confirm = <<"DELETE STORE">>
    IN /\ ~prompted => (confirm = <<>> /\ env.list_ok)
       /\ Lower(command) # <<"clear">> => env.docs_ok
       /\ ~clearing => env.files_ok
       /\ ~(clearing \/ deleting) => env.delete_ok

\* One run of the utility; trace takes the destructive calls it sent
admin_manage ==
    /\ \E command \in Commands, confirm \in Confirms, env \in AdminEnvs :
         LET x == admin_manage_main(RemoteNow, command, confirm, env)
         IN /\ AdminCallsAsked(command, confirm, env)
            /\ SetRemote(x.remote)
            /\ trace' = x.log
            /\ call' = Ran("admin_manage", command, confirm)
    /\ UNCHANGED <<cache_vars, state, pc, n_calls, gen_calls, deleted, result, budget,
                   side_vars>>

\* One call of _get_or_create_store on the manager of the service
resolve_store ==
    /\ \E display_name \in {USER_STORE_NAME, ADMIN_STORE_NAME},
          env \in Envs({"ok"}, {TRUE}, {TRUE}) :
         LET g == _get_or_create_store(display_name, user_store_id, admin_store_id,
                                       stores, env.list_ok, env.create_ok)
         IN /\ CanCreate(env)
            /\ StoreCallsAsked(display_name, env)
            /\ stores' = g.stores
            /\ user_store_id' = g.user
            /\ admin_store_id' = g.admin
            /\ rname' = display_name
            /\ rret' = [rret EXCEPT ![1] = g.handle]
            /\ rpc' = [rpc EXCEPT ![1] = IF g.raised THEN "raised" ELSE "done"]
    /\ trace' = <<>>
    /\ call' = Ran("resolve", None, <<>>)
    /\ UNCHANGED <<docs, files, next_file, state, pc, n_calls, gen_calls, deleted,
                   result, budget, fq, retry, xfer>>

NextAdmin == admin_manage \/ resolve_store

SpecAdmin == InitAdmin /\ [][NextAdmin]_vars

\* C29: a stale cache entry is no correctness problem: after the store behind
\* a cached handle was deleted remotely, the next _get_or_create_store for
\* that display name that returns hands back a store that exists remotely (a
\* run cannot but fail on a handle of a store that is gone).
C29_ResolvedStoreExists ==
    (call.entry = "resolve" /\ rpc[1] = "done") => StoreExists(rret[1], stores)

\* The api names a log holds
ApisOf(log) == {log[i].api : i \in 1..Len(log)}

\* C30: the utility sends a destructive call (files.delete, documents.delete,
\* file_search_stores.delete) only when the command is clear and yes was typed
\* (the code lowers both), or the command is delete and exactly DELETE STORE
\* was typed; clear deletes no store and delete empties none; with no
\* command, an unknown one, list, or any other text typed nothing is sent and
\* the service is left as it was.  (yes and the command in any letter case.)
C30_DestructiveOnlyWhenConfirmed ==
    [][call'.entry = "admin_manage" =>
          \/ /\ Lower(call'.command) = <<"clear">>
             /\ Lower(call'.confirm) = <<"yes">>
             /\ ApisOf(trace') \subseteq {"files.delete", "documents.delete"}
          \/ /\ Lower(call'.command) = <<"delete">>
             /\ call'.confirm = <<"DELETE STORE">>
             /\ ApisOf(trace') \subseteq {"file_search_stores.delete"}
          \/ /\ trace' = <<>>
             /\ UNCHANGED remote_vars]_vars

\* C30 witness: clear was run and yes typed; the binary and both document
\* entries of the admin store were deleted, the user's document was not
C30_Witness ==
    /\ call.entry = "admin_manage"
    /\ Lower(call.command) = <<"clear">>
    /\ Lower(call.confirm) = <<"yes">>
    /\ Len(trace) = 3
    /\ ListDocs(docs, 2) = <<>>
    /\ Len(ListDocs(docs, 1)) = 1
    /\ files = {2}

-----------------------------------------------------------------------------
(* A ComplianceReport serialized into the compliance_report of a final state,
   and _parse_result on that state *)

MaxViolations == 2

\* json.dumps of a str, a bool, a float (held in tenths) and an int
JsonDumpsStr(text) == (CHOOSE p \in StringLiterals : p[1] = text)[2]
JsonDumpsBool(b) == IF b THEN "true" ELSE "false"
JsonDumpsFloat(tenths) == CASE tenths = 0 -> "0.0" [] tenths = 855 -> "85.5"
JsonDumpsInt(n) == CASE n = 0 -> "0" [] n = 2 -> "2"

\* ComplianceViolation and ComplianceReport values
ComplianceViolations ==
    {[rule_category |-> "privacy", violation_text |-> "email jane@x.com",
      correction_suggestion |-> "mask it", severity |-> "High"],
     [rule_category |-> "privacy", violation_text |-> "said \"call me\"",
      correction_suggestion |-> "", severity |-> "Low"],
     [rule_category |-> "", violation_text |-> "email jane@x.com",
      correction_suggestion |-> "mask it", severity |-> "Low"]}

RECURSIVE ViolationLists(_)
ViolationLists(n) ==
    IF n = 0 THEN {<<>>}
    ELSE ViolationLists(n - 1)
            \cup {Append(vs, v) : vs \in {l \in ViolationLists(n - 1) : Len(l) = n - 1},
                                  v \in ComplianceViolations}

ComplianceReports ==
    [is_compliant : BOOLEAN, overallScore : {0, 855}, detectionConfidence : {"High", "Low"},
     totalViolations : {0, 2}, violations : ViolationLists(MaxViolations)]

\* The JSON text of a violation, of a list of violations from index i on, and
\* of a report: the fields in the order of the class
ViolationJson(v) ==
    <<"{", "\"rule_category\"", ":", JsonDumpsStr(v.rule_category), ",",
      "\"violation_text\"", ":", JsonDumpsStr(v.violation_text), ",",
      "\"correction_suggestion\"", ":", JsonDumpsStr(v.correction_suggestion), ",",
      "\"severity\"", ":", JsonDumpsStr(v.severity), "}">>

RECURSIVE ViolationsJson(_, _)
ViolationsJson(vs, i) ==
    IF i > Len(vs) THEN <<>>
    ELSE (IF i > 1 THEN <<",">> ELSE <<>>) \o ViolationJson(vs[i]) \o ViolationsJson(vs, i + 1)

ReportJson(r) ==
    <<"{", "\"is_compliant\"", ":", JsonDumpsBool(r.is_compliant), ",",
      "\"overallScore\"", ":", JsonDumpsFloat(r.overallScore), ",",
      "\"detectionConfidence\"", ":", JsonDumpsStr(r.detectionConfidence), ",",
      "\"totalViolations\"", ":", JsonDumpsInt(r.totalViolations), ",",
      "\"violations\"", ":", "[">> \o ViolationsJson(r.violations, 1) \o <<"]", "}">>

\* A run that ended with no error and with the JSON text of a report
InitRoundTrip ==
    /\ stores = SeededRemote.stores
    /\ docs = SeededRemote.docs
    /\ files = SeededRemote.files
    /\ next_file = SeededRemote.next_file
    /\ user_store_id = 0
    /\ admin_store_id = 2
    /\ \E r \in ComplianceReports :
         /\ state = [ComplianceState(<<"u1">>, Draft, None, None, 2, AdminFilter, 0,
                                     "standard")
                       EXCEPT !.extracted_rules = <<"mask all email addresses">>,
                              !.compliance_report = ReportJson(r)]
         /\ call = [entry |-> "admin_rules", cleanup_after |-> FALSE, report |-> r]
    /\ pc = "done"
    /\ trace = <<"setup", "extract", "verify", "cleanup">>
    /\ n_calls = NoCalls
    /\ gen_calls = <<>>
    /\ deleted = {}
    /\ result = NoResult
    /\ budget = 0
    /\ rname = USER_STORE_NAME
    /\ rpc = [t \in Threads |-> "idle"]
    /\ rret = [t \in Threads |-> 0]
    /\ fq = NoQuery
    /\ retry = NoRetry
    /\ xfer = NoUpload

NextRoundTrip == return_result

SpecRoundTrip == InitRoundTrip /\ [][NextRoundTrip]_vars

\* The report of a result with status success: the value json.loads built
\* from the text
ReportOf(res) == json_loads(res.report)

\* C31: for every ComplianceReport r, a final state with no errors whose
\* compliance_report is the JSON text of r is parsed to status success with a
\* report equal to r field for field: is_compliant, overallScore,
\* detectionConfidence, totalViolations, and the violations one by one in the
\* same order.
C31_ReportRoundTrip ==
    [][(pc = "done" /\ pc' = "idle") =>
          LET r == call.report
              parsed == ReportOf(result').dict
          IN /\ result'.status = "success"
             /\ DOMAIN parsed = {"is_compliant", "overallScore", "detectionConfidence",
                                 "totalViolations", "violations"}
             /\ parsed["is_compliant"] = PyBool(r.is_compliant)
             /\ parsed["overallScore"] = PyNum(r.overallScore)
             /\ parsed["detectionConfidence"] = PyStr(r.detectionConfidence)
             /\ parsed["totalViolations"] = PyNum(10 * r.totalViolations)
             /\ Len(parsed["violations"].list) = Len(r.violations)
             /\ \A i \in 1..Len(r.violations) :
                   LET v == parsed["violations"].list[i].dict
                   IN /\ DOMAIN v = {"rule_category", "violation_text",
                                     "correction_suggestion", "severity"}
                      /\ v["rule_category"] = PyStr(r.violations[i].rule_category)
                      /\ v["violation_text"] = PyStr(r.violations[i].violation_text)
                      /\ v["correction_suggestion"] =
                            PyStr(r.violations[i].correction_suggestion)
                      /\ v["severity"] = PyStr(r.violations[i].severity)]_vars

\* C31 witness: a report with two different violations, one of them quoting
\* speech, came back from _parse_result with status success
C31_Witness ==
    /\ pc = "idle"
    /\ result.status = "success"
    /\ Len(ReportOf(result).dict["violations"].list) = 2
    /\ ReportOf(result).dict["violations"].list[1].dict["violation_text"]
          = PyStr("email jane@x.com")
    /\ ReportOf(result).dict["violations"].list[2].dict["violation_text"]
          = PyStr("said \"call me\"")

-----------------------------------------------------------------------------
(* One custom run on its own: what it leaves behind at the Files API *)

InitLeak ==
    /\ \E rem \in {EmptyRemote, SeededRemote} :
         /\ stores = rem.stores
         /\ docs = rem.docs
         /\ files = rem.files
         /\ next_file = rem.next_file
    /\ user_store_id = 0
    /\ admin_store_id = 0
    /\ state = NoState
    /\ pc = "idle"
    /\ call = [entry |-> "none", cleanup_after |-> FALSE]
    /\ trace = <<>>
    /\ n_calls = NoCalls
    /\ gen_calls = <<>>
    /\ deleted = {}
    /\ result = NoResult
    /\ budget = 1
    /\ rname = USER_STORE_NAME
    /\ rpc = [t \in Threads |-> "idle"]
    /\ rret = [t \in Threads |-> 0]
    /\ fq = NoQuery
    /\ retry = NoRetry
    /\ xfer = NoUpload

\* check_compliance_auto with an s3_key, up to the invoke
check_compliance_auto_custom ==
    /\ pc = "idle"
    /\ budget > 0
    /\ \E user_id \in UserIds, s3_key \in S3Keys, file_id \in FileIds \cup {None} :
         Invoke("auto", FALSE,
                ComplianceState(user_id, Draft, s3_key,
                                IF Truthy(file_id) THEN file_id ELSE <<"auto_", "<time>">>,
                                0, Absent, 0, "absent"))
    /\ result' = NoResult
    /\ deleted' = {}
    /\ UNCHANGED <<remote_vars, cache_vars, side_vars>>

NextLeak ==
    \/ check_compliance_auto_custom
    \/ node_setup_context
    \/ node_extract_rules
    \/ node_verify_compliance
    \/ node_cleanup
    \/ return_result

SpecLeak == InitLeak /\ [][NextLeak]_vars

\* The binaries that were not there before the run: every name handed out so
\* far but the seeded admin rules'
BinariesOfRun == (1..(next_file - 1)) \ SeededRemote.files

\* C37: a custom run leaks no binary: when it is through node_cleanup and the
\* delete node_cleanup issued, if any, went through, no binary the run
\* uploaded in node_setup_context is left at the Files API, also when the
\* binary's processing failed or import_file raised.
C37_NoBinaryLeaked ==
    (pc = "done" /\ state.file_to_cleanup \notin files) =>
        BinariesOfRun \cap files = {}

-----------------------------------------------------------------------------
(* _ensure_admin_file_exists called by two standard runs at once: a run may be
   preempted at each remote call.  rret[t] is the name run t holds: the
   binary it uploaded, in the end what the function returns. *)

\* The admin store exists and holds no standard_admin_rule document; the user
\* store may hold users' documents
UnseededRemotes ==
    {Remote(SeededRemote.stores, <<>>, {}, 1),
     Remote(SeededRemote.stores, <<Doc(1, -1, <<"u1">>, <<"f1">>, CustomUpload, 1)>>, {1}, 2),
     Remote(SeededRemote.stores,
            <<Doc(1, -1, <<"u1">>, <<"f1">>, CustomUpload, 1),
              Doc(1, -2, <<"u2">>, <<"f1">>, CustomUpload, 2)>>, {1, 2}, 3)}

AdminStore == FindStore(ADMIN_STORE_NAME, SeededRemote.stores)

InitSeed ==
    /\ \E rem \in UnseededRemotes :
         /\ stores = rem.stores
         /\ docs = rem.docs
         /\ files = rem.files
         /\ next_file = rem.next_file
    /\ user_store_id = 0
    /\ admin_store_id = AdminStore
    /\ state = NoState
    /\ pc = "idle"
    /\ call = [entry |-> "none", cleanup_after |-> FALSE]
    /\ trace = <<>>
    /\ n_calls = NoCalls
    /\ gen_calls = <<>>
    /\ deleted = {}
    /\ result = NoResult
    /\ budget = 0
    /\ rname = ADMIN_STORE_NAME
    /\ rpc = [t \in Threads |-> "idle"]
    /\ rret = [t \in Threads |-> 0]
    /\ fq = NoQuery
    /\ retry = NoRetry
    /\ xfer = NoUpload

\* documents.list and the search for a standard_admin_rule document: the
\* first one found is returned, with none the seeding starts
seed_list(t) ==
    /\ rpc[t] = "idle"
    /\ \E docs_ok \in BOOLEAN :
         LET existing == FindAdminDoc(ListDocs(docs, admin_store_id), 1)
         IN IF ~docs_ok
            THEN /\ rpc' = [rpc EXCEPT ![t] = "raised"]
                 /\ UNCHANGED rret
            ELSE IF existing # 0
            THEN /\ rpc' = [rpc EXCEPT ![t] = "done"]
                 /\ rret' = [rret EXCEPT ![t] = existing]
            ELSE /\ rpc' = [rpc EXCEPT ![t] = "upload"]
                 /\ UNCHANGED rret
    /\ UNCHANGED <<remote_vars, cache_vars, state, pc, call, trace, n_calls, gen_calls,
                   deleted, result, budget, rname, fq, retry, xfer>>

\* _upload_from_s3, client.files.upload: the binary is created
seed_upload(t) ==
    /\ rpc[t] = "upload"
    /\ files' = files \cup {next_file}
    /\ next_file' = next_file + 1
    /\ rret' = [rret EXCEPT ![t] = next_file]
    /\ rpc' = [rpc EXCEPT ![t] = "poll"]
    /\ UNCHANGED <<stores, docs, cache_vars, state, pc, call, trace, n_calls, gen_calls,
                   deleted, result, budget, rname, fq, retry, xfer>>

\* _upload_from_s3, the wait: the binary is no longer PROCESSING and has not
\* FAILED
seed_poll(t) ==
    /\ rpc[t] = "poll"
    /\ rpc' = [rpc EXCEPT ![t] = "import"]
    /\ UNCHANGED <<remote_vars, cache_vars, state, pc, call, trace, n_calls, gen_calls,
                   deleted, result, budget, rname, rret, fq, retry, xfer>>

\* _upload_from_s3, import_file with the metadata and google_file_name
seed_import(t) ==
    /\ rpc[t] = "import"
    /\ docs' = Append(docs, Doc(admin_store_id, -rret[t], Absent, Absent,
                                StandardAdminRule, rret[t]))
    /\ rpc' = [rpc EXCEPT ![t] = "done"]
    /\ UNCHANGED <<stores, files, next_file, cache_vars, state, pc, call, trace, n_calls,
                   gen_calls, deleted, result, budget, rname, rret, fq, retry, xfer>>

NextSeed ==
    \/ \E t \in Threads : seed_list(t)
    \/ \E t \in Threads : seed_upload(t)
    \/ \E t \in Threads : seed_poll(t)
    \/ \E t \in Threads : seed_import(t)

SpecSeed == InitSeed /\ [][NextSeed]_vars

\* The standard_admin_rule documents of the admin store
AdminRuleDocs ==
    {i \in 1..Len(docs) : docs[i].store = admin_store_id /\ docs[i].type = StandardAdminRule}

\* C38: the admin store is seeded at most once: from an admin store without
\* a standard_admin_rule document, once the standard runs have their admin
\* file, however their steps interleaved, the store holds exactly one
\* standard_admin_rule document.
C38_SeededAtMostOnce ==
    (\A t \in Threads : rpc[t] = "done") => Cardinality(AdminRuleDocs) = 1

====
